---- MODULE Spec2Model ----
(***************************************************************************)
(* Bayesian Gaussian CP decomposition (BGCP), src/imputer/BGCP.ipynb.      *)
(*                                                                         *)
(* Arrays are sequences: a vector is a sequence of integers, a matrix a    *)
(* sequence of rows, a 3-D tensor a sequence of matrices, T[i][j][t].      *)
(* Python's 0-based index x is the 1-based index x + 1 here; the mode k    *)
(* keeps the code's numbering 0, 1, 2, so factor[k] of the code is         *)
(* factor[k + 1] here.  Reals are modelled by integers; a quotient is kept *)
(* as a reduced fraction [kind, n, d], with the kinds "nan" and "inf" for  *)
(* the results of a division by zero; an infinity has a sign.  Where numpy *)
(* broadcasts a size of 1 the model does too.  A random draw is a choice   *)
(* from a small subset of the distribution's support, made by the variate  *)
(* the generator hands out.  An exception ends the run at pc = "error"     *)
(* with its class in err.                                                  *)
(***************************************************************************)
EXTENDS Integers, Sequences, FiniteSets, TLC

VARIABLES
    dense_tensor,      \* argument of BGCP: the reference array
    sparse_tensor,     \* argument: the observation array, 0 = missing
    factor,            \* argument: the caller's list of factor matrices
    burn_iter,         \* argument
    gibbs_iter,        \* argument
    vargin,            \* argument of sample_factor (0 dense, 1 sparse)
    pc,                \* position in the code
    it,                \* loop variable of the sweep loop (0-based)
    k,                 \* loop variable of the mode loop (0-based)
    pos_train,         \* np.where(sparse_tensor != 0), as coordinates
    pos_test,          \* np.where((dense != 0) & (sparse == 0))
    binary_tensor,     \* the mask
    tau,               \* global precision
    var_mu_hyper,      \* hyperparameter mean of the current mode
    var_Lambda_hyper,  \* hyperparameter precision of the current mode
    tensor_hat,        \* cp_combine(factor) of the current sweep
    factor_plus,       \* accumulator of factor samples
    tensor_hat_plus,   \* accumulator of reconstructed tensors
    out_tensor,        \* returned tensor (entries are fractions)
    out_factor,        \* returned factor matrices (entries are fractions)
    mape,              \* last MAPE computed
    rmse,              \* last RMSE computed (its radicand)
    err,               \* the exception that ended the run, "" if none
    row_Lambda,        \* var_Lambda of each row of the last sample_factor
    row_rhs,           \* right-hand side of each row of the last call
    n_drawn,           \* rows written by the last sample_factor call
    warned,            \* mvnrnd warned of a covariance that is not PSD
    rng,               \* state of numpy's global generator, -1 if never seeded
    caller,            \* what the calling cell keeps between two calls
    arg,               \* arguments of a kernel called on its own
    ret,               \* return value of a kernel called on its own
    trace              \* observation of the run (what each step read)

vars == <<dense_tensor, sparse_tensor, factor, burn_iter, gibbs_iter, vargin,
          pc, it, k, pos_train, pos_test, binary_tensor, tau, var_mu_hyper,
          var_Lambda_hyper, tensor_hat, factor_plus, tensor_hat_plus,
          out_tensor, out_factor, mape, rmse, err, row_Lambda, row_rhs,
          n_drawn, warned, rng, caller, arg, ret, trace>>

----------------------------------------------------------------------------
(* Arrays.                                                                 *)

Rows(M) == Len(M)

Cols(M) == IF Len(M) = 0 THEN 0 ELSE Len(M[1])

Shape3(T) == <<Len(T), Len(T[1]), Len(T[1][1])>>

RECURSIVE SumSeq(_)
SumSeq(s) == IF s = <<>> THEN 0 ELSE Head(s) + SumSeq(Tail(s))

RECURSIVE ProdSeq(_)
ProdSeq(s) == IF s = <<>> THEN 1 ELSE Head(s) * ProdSeq(Tail(s))

\* An array built by [x \in 1..n |-> e] is evaluated element by element on
\* every use; Arr1, Arr2 and Arr3 give the same vector, matrix and tensor
\* as an explicit sequence.
Arr1(v) == SubSeq(v, 1, Len(v))

Arr2(M) == SubSeq([r \in 1..Len(M) |-> Arr1(M[r])], 1, Len(M))

Arr3(T) == SubSeq([x \in 1..Len(T) |-> Arr2(T[x])], 1, Len(T))

Transpose(M) == Arr2([c \in 1..Cols(M) |-> [r \in 1..Rows(M) |-> M[r][c]]])

\* A @ B, for Cols(A) = Rows(B).
MatMul(A, B) ==
    Arr2(
        [r \in 1..Rows(A) |->
            [c \in 1..Cols(B) |->
                SumSeq([x \in 1..Cols(A) |-> A[r][x] * B[x][c]])]])

\* M @ v for a vector v.
MatVec(M, v) ==
    Arr1(
        [r \in 1..Rows(M) |-> SumSeq([x \in 1..Cols(M) |-> M[r][x] * v[x]])])

MatAdd(A, B) == Arr2([r \in 1..Rows(A) |-> [c \in 1..Cols(A) |-> A[r][c] + B[r][c]]])

MatScale(s, A) == Arr2([r \in 1..Rows(A) |-> [c \in 1..Cols(A) |-> s * A[r][c]]])

VecAdd(u, v) == Arr1([x \in 1..Len(u) |-> u[x] + v[x]])

VecScale(s, v) == Arr1([x \in 1..Len(v) |-> s * v[x]])

VecMul(u, v) == Arr1([x \in 1..Len(u) |-> u[x] * v[x]])

Outer(u, v) == Arr2([r \in 1..Len(u) |-> [c \in 1..Len(v) |-> u[r] * v[c]]])

ZeroVec(n) == Arr1([x \in 1..n |-> 0])

ZeroMat(m, n) == Arr2([r \in 1..m |-> [c \in 1..n |-> 0]])

ZeroTen(d) == Arr3([i \in 1..d[1] |-> [j \in 1..d[2] |-> [t \in 1..d[3] |-> 0]]])

Eye(n) == Arr2([r \in 1..n |-> [c \in 1..n |-> IF r = c THEN 1 ELSE 0]])

\* numpy's broadcast of two sizes: 0 stands for "cannot be broadcast".
Bc(a, b) == IF a = b THEN a ELSE IF a = 1 THEN b ELSE IF b = 1 THEN a ELSE 0

\* A vector of length 1 or n as numpy broadcasts it to length n.
BcVec(v, n) == Arr1([x \in 1..n |-> v[IF Len(v) = 1 THEN 1 ELSE x]])

\* A matrix as numpy broadcasts it to the shape (m, n).
BcMat(M, m, n) ==
    Arr2([r \in 1..m |-> [c \in 1..n |->
            M[IF Rows(M) = 1 THEN 1 ELSE r][IF Cols(M) = 1 THEN 1 ELSE c]]])

\* u + v, u * v and A + B under broadcasting, for shapes that Bc accepts.
BcVecAdd(u, v) ==
    VecAdd(BcVec(u, Bc(Len(u), Len(v))), BcVec(v, Bc(Len(u), Len(v))))

BcVecMul(u, v) ==
    VecMul(BcVec(u, Bc(Len(u), Len(v))), BcVec(v, Bc(Len(u), Len(v))))

BcMatAdd(A, B) ==
    MatAdd(BcMat(A, Bc(Rows(A), Rows(B)), Bc(Cols(A), Cols(B))),
           BcMat(B, Bc(Rows(A), Rows(B)), Bc(Cols(A), Cols(B))))

RECURSIVE Det(_)
Det(M) ==
    IF Len(M) = 0 THEN 1
    ELSE IF Len(M) = 1 THEN M[1][1]
    ELSE LET n == Len(M)
             Minor(c) == [r \in 1..(n - 1) |->
                            [x \in 1..(n - 1) |->
                                M[r + 1][IF x < c THEN x ELSE x + 1]]]
             Sign(c) == IF c % 2 = 1 THEN 1 ELSE -1
         IN  SumSeq([c \in 1..n |-> Sign(c) * M[1][c] * Det(Minor(c))])

\* Sylvester's criterion, for a symmetric M.
IsPD(M) ==
    \A n \in 1..Len(M) : Det(Arr2([r \in 1..n |-> [c \in 1..n |-> M[r][c]]])) > 0

----------------------------------------------------------------------------
(* Linear-algebra kernels.                                                 *)

\* A Khatri-Rao product whose rows run through a's rows fastest: row
\* j * m + i is a[i, :] * b[j, :].
kr_prodColumnMajor(a, b) ==
    Arr2(
        LET m == Rows(a)
        IN  [x \in 1..(m * Rows(b)) |->
                [s \in 1..Cols(a) |->
                    a[((x - 1) % m) + 1][s] * b[((x - 1) \div m) + 1][s]]])

\* np.einsum('ir, jr -> ijr', a, b).reshape(a.shape[0] * b.shape[0], -1):
\* row i * n + j of the result is a[i, :] * b[j, :].  einsum broadcasts a
\* column count of 1 against the other operand's.
kr_prod(a, b) ==
    Arr2(
        LET n == Rows(b)
            r == Bc(Cols(a), Cols(b))
            ijr == [i \in 1..Rows(a) |->
                      [j \in 1..n |->
                         [s \in 1..r |->
                            a[i][IF Cols(a) = 1 THEN 1 ELSE s]
                          * b[j][IF Cols(b) = 1 THEN 1 ELSE s]]]]
        IN  [x \in 1..(Rows(a) * n) |-> ijr[((x - 1) \div n) + 1][((x - 1) % n) + 1]])

\* Entry s of row x of M, a single column standing for every s.
ColAt(M, x, s) == M[x][IF Cols(M) = 1 THEN 1 ELSE s]

\* A combination with the output modes in the order i, t, j.
cp_combineTransposed(var) ==
    Arr3(
        [i \in 1..Rows(var[1]) |->
            [t \in 1..Rows(var[3]) |->
                [j \in 1..Rows(var[2]) |->
                    SumSeq([s \in 1..Bc(Bc(Cols(var[1]), Cols(var[2])), Cols(var[3])) |->
                              ColAt(var[1], i, s) * ColAt(var[2], j, s)
                            * ColAt(var[3], t, s)])]]])

\* np.einsum('is, js, ts -> ijt', var[0], var[1], var[2])
cp_combine(var) ==
    Arr3(
        [i \in 1..Rows(var[1]) |->
            [j \in 1..Rows(var[2]) |->
                [t \in 1..Rows(var[3]) |->
                    SumSeq([s \in 1..Bc(Bc(Cols(var[1]), Cols(var[2])), Cols(var[3])) |->
                              ColAt(var[1], i, s) * ColAt(var[2], j, s)
                            * ColAt(var[3], t, s)])]]])

\* np.moveaxis(tensor, mode, 0): axis `mode` first, the others in order.
moveaxis0(tensor, mode) ==
    Arr3(
        LET d == Shape3(tensor)
        IN  IF mode = 0 THEN tensor
            ELSE IF mode = 1
            THEN [x \in 1..d[2] |-> [p \in 1..d[1] |-> [q \in 1..d[3] |-> tensor[p][x][q]]]]
            ELSE [x \in 1..d[3] |-> [p \in 1..d[1] |-> [q \in 1..d[2] |-> tensor[p][q][x]]]])

\* The reshape in row-major order (order = 'C'): element (x, p, q) lands in
\* row x, column p * a.shape[2] + q.
reshapeRowMajor(a) ==
    Arr2(
        LET d == Shape3(a)
        IN  [x \in 1..d[1] |->
                [c \in 1..(d[2] * d[3]) |->
                    a[x][((c - 1) \div d[3]) + 1][((c - 1) % d[3]) + 1]]])

\* np.reshape(a, (a.shape[0], -1), order = 'F') of a 3-D array a: in
\* column-major order the first index varies fastest, so element (x, p, q)
\* lands in row x, column p + a.shape[1] * q.
reshapeF(a) ==
    Arr2(
        LET d == Shape3(a)
        IN  [x \in 1..d[1] |->
                [c \in 1..(d[2] * d[3]) |->
                    a[x][((c - 1) % d[2]) + 1][((c - 1) \div d[2]) + 1]]])

ten2mat(tensor, mode) == reshapeF(moveaxis0(tensor, mode))

\* M.reshape([a, b, c]) of a matrix M with a * b * c elements (row-major).
reshapeC3(M, a, b, c) ==
    Arr3(
        LET flat(n) == M[(n \div Cols(M)) + 1][(n % Cols(M)) + 1]
        IN  [x \in 1..a |-> [y \in 1..b |-> [z \in 1..c |->
                flat(((x - 1) * b + (y - 1)) * c + (z - 1))]]])

\* np.dstack([L] * n) of a matrix L: (rows, cols, n).
dstack2(L, n) == Arr3([x \in 1..Rows(L) |-> [y \in 1..Cols(L) |-> [z \in 1..n |-> L[x][y]]]])

\* np.dstack([v] * n)[0, :, :] of a vector v: (len, n).
dstack1(v, n) == Arr2([y \in 1..Len(v) |-> [z \in 1..n |-> v[y]]])

----------------------------------------------------------------------------
(* sample_factor.                                                          *)

Threshold == 100000000

\* x / dim > Threshold for integers x >= 0 and dim >= 0, in numpy's
\* arithmetic: x / 0 is inf for x > 0 and nan for x = 0, and nan > y is
\* false.
QuotientExceeds(x, dim) ==
    IF dim = 0 THEN x > 0
    ELSE \/ x \div dim > Threshold
         \/ x \div dim = Threshold /\ x % dim > 0

\* A choice that turns to the sparse strategy already at the threshold.
StrategyNonStrict(dim, rank, total, vargin0) ==
    LET v1 == IF dim * rank * rank >= Threshold THEN 1 ELSE vargin0
        v2 == IF (total * rank * rank) \div dim >= Threshold THEN 1 ELSE v1
    IN  v2

\* Lines 380-386: the strategy sample_factor runs, from the caller's vargin,
\* dim, rank = factor[k].shape and total = np.prod(sparse_tensor.shape).
Strategy(dim, rank, total, vargin0) ==
    LET v1 == IF dim * rank * rank > Threshold THEN 1 ELSE vargin0
        v2 == IF QuotientExceeds(total * rank * rank, dim) THEN 1 ELSE v1
        v3 == IF dim * rank * rank > Threshold THEN 1 ELSE v2
    IN  v3

\* The cofactor modes handed to kr_prod in the other order.
DenseCofactorsSwapped(kk) ==
    IF kk = 0 THEN <<kk + 1, kk + 2>>
    ELSE IF kk = 1 THEN <<kk - 1, kk + 1>>
    ELSE <<kk - 2, kk - 1>>

\* The two cofactor modes of mode kk, in the order the dense strategy
\* hands them to kr_prod (0-based, as in the code).
DenseCofactors(kk) ==
    IF kk = 0 THEN <<kk + 2, kk + 1>>
    ELSE IF kk = 1 THEN <<kk + 1, kk - 1>>
    ELSE <<kk - 1, kk - 2>>

DenseVar1(fac, kk) ==
    LET c == DenseCofactors(kk)
    IN  Transpose(kr_prod(fac[c[1] + 1], fac[c[2] + 1]))

\* The exception the dense strategy raises before its row loop, "" if none:
\* lines 389-399.  numpy broadcasts a size of 1 wherever two arrays are
\* added, so a var_Lambda_hyper with one row or one column and a product
\* var_Lambda_hyper @ var_mu_hyper of length 1 are accepted.
DenseError(sparse, binary, fac, mu, Lambda, kk) ==
    IF Len(fac) < kk + 1 THEN "IndexError"
    \* No branch of lines 389-394 binds var1 for k > 2.
    ELSE IF kk > 2 THEN "UnboundLocalError"
    ELSE IF Len(fac) < 3 THEN "IndexError"
    ELSE
    LET c == DenseCofactors(kk)
        dim == Rows(fac[kk + 1])
        rank == Cols(fac[kk + 1])
        a == fac[c[1] + 1]
        b == fac[c[2] + 1]
        r1 == Bc(Cols(a), Cols(b))
        d == Shape3(binary)
        dimT == d[kk + 1]
        rest == ProdSeq(d) \div dimT
    IN  \* einsum of kr_prod
        IF r1 = 0 THEN "ValueError"
        \* var2 @ ten2mat(binary_tensor, k).T
        ELSE IF Rows(a) * Rows(b) # rest THEN "ValueError"
        \* .reshape([rank, rank, dim])
        ELSE IF r1 * r1 * dimT # rank * rank * dim THEN "ValueError"
        \* + np.dstack([var_Lambda_hyper] * dim)
        ELSE IF Bc(rank, Rows(Lambda)) = 0 \/ Bc(rank, Cols(Lambda)) = 0
             THEN "ValueError"
        \* var_Lambda_hyper @ var_mu_hyper
        ELSE IF Cols(Lambda) # Len(mu) THEN "ValueError"
        \* tau * var1 @ ten2mat(sparse_tensor, k).T + np.dstack(...)[0, :, :]
        ELSE IF Bc(r1, Rows(Lambda)) = 0 \/ Bc(dimT, dim) = 0 THEN "ValueError"
        ELSE ""

\* var3 of line 396: (rank, rank, dim) plus (Lambda's shape, dim).
DenseVar3(binary, tau0, fac, Lambda, kk) ==
    Arr3(
        LET dim == Rows(fac[kk + 1])
            rank == Cols(fac[kk + 1])
            var1 == DenseVar1(fac, kk)
            var2 == kr_prod(var1, var1)
            cube == reshapeC3(MatMul(var2, Transpose(ten2mat(binary, kk))), rank, rank, dim)
            hyp == dstack2(Lambda, dim)
        IN  [x \in 1..Bc(rank, Rows(Lambda)) |->
                [y \in 1..Bc(rank, Cols(Lambda)) |->
                    [i \in 1..dim |->
                        tau0 * cube[IF rank = 1 THEN 1 ELSE x][IF rank = 1 THEN 1 ELSE y][i]
                      + hyp[IF Rows(Lambda) = 1 THEN 1 ELSE x]
                           [IF Cols(Lambda) = 1 THEN 1 ELSE y][i]]]])

\* var4 of line 398.
DenseVar4(sparse, tau0, fac, mu, Lambda, kk) ==
    Arr2(
        LET dim == Rows(fac[kk + 1])
            var1 == DenseVar1(fac, kk)
        IN  BcMatAdd(MatMul(MatScale(tau0, var1), Transpose(ten2mat(sparse, kk))),
                     dstack1(MatVec(Lambda, mu), dim)))

\* var3[:, :, i] and var4[:, i] of the dense strategy (i is 1-based).
DenseLambda(binary, tau0, fac, Lambda, kk, i) ==
    Arr2(
        LET var3 == DenseVar3(binary, tau0, fac, Lambda, kk)
        IN  [x \in 1..Len(var3) |-> [y \in 1..Len(var3[x]) |-> var3[x][y][i]]])

DenseRhs(sparse, tau0, fac, mu, Lambda, kk, i) ==
    Arr1(
        LET var4 == DenseVar4(sparse, tau0, fac, mu, Lambda, kk)
        IN  [x \in 1..Len(var4) |-> var4[x][i]])

\* Cofactors that take the matrix of mode kk itself in place of the first
\* of the other two.
SparseCofactorsOwn(kk) ==
    IF kk = 0 THEN <<kk, kk + 2>>
    ELSE IF kk = 1 THEN <<kk, kk + 1>>
    ELSE <<kk, kk - 1>>

\* The two cofactor modes of mode kk in the sparse strategy: the first
\* indexes the rows of a slice, the second its columns.
SparseCofactors(kk) ==
    IF kk = 0 THEN <<kk + 1, kk + 2>>
    ELSE IF kk = 1 THEN <<kk - 1, kk + 1>>
    ELSE <<kk - 2, kk - 1>>

\* tensor[idx, :, :], tensor[:, idx, :] or tensor[:, :, idx] (idx 0-based).
Slice(tensor, axis, idx) == moveaxis0(tensor, axis)[idx + 1]

\* np.where(M != 0) of a matrix: the positions in row-major order.
WhereNZ2(M) ==
    LET all == [x \in 1..(Rows(M) * Cols(M)) |->
                  <<((x - 1) \div Cols(M)) + 1, ((x - 1) % Cols(M)) + 1>>]
        Test(pq) == M[pq[1]][pq[2]] # 0
    IN  SelectSeq(all, Test)

\* The slice index the sparse strategy uses for row i of mode kk: the code
\* writes binary_tensor[k, :, :], binary_tensor[:, k, :], binary_tensor[:, :, k]
\* (lines 410, 423, 436).
SparseSliceIndex(kk, i) == kk

\* The exception line 405, var_mu0 = var_Lambda_hyper @ var_mu_hyper, raises.
SparseMu0Error(mu, Lambda) ==
    IF Cols(Lambda) # Len(mu) THEN "ValueError" ELSE ""

\* The exception the loop over pos0 raises, "" if none: each term indexes
\* the two cofactor rows (IndexError), multiplies them (ValueError unless
\* the column counts can be broadcast) and adds the product in place to
\* temp1 and temp2 (ValueError unless it has 1 or rank entries).
RECURSIVE SparseTermError(_, _, _, _, _)
SparseTermError(pos0, t, a, b, rank) ==
    IF t > Len(pos0) THEN ""
    ELSE IF pos0[t][1] > Rows(a) \/ pos0[t][2] > Rows(b) THEN "IndexError"
    ELSE IF Bc(Cols(a), Cols(b)) = 0 THEN "ValueError"
    ELSE IF Bc(Cols(a), Cols(b)) \notin {1, rank} THEN "ValueError"
    ELSE SparseTermError(pos0, t + 1, a, b, rank)

\* The exception the sparse strategy raises in a row before its var_Lambda
\* exists, "" if none (for k <= 2): the slice, the loop over pos0, and
\* tau * temp2 + var_Lambda_hyper.
SparseError(sparse, binary, fac, mu, Lambda, kk) ==
    IF Len(fac) < kk + 1 THEN "IndexError"
    ELSE
    LET rank == Cols(fac[kk + 1])
        d == Shape3(binary)
        c == SparseCofactors(kk)
    IN  IF SparseSliceIndex(kk, 1) + 1 > d[kk + 1] THEN "IndexError"
        ELSE
        LET pos0 == WhereNZ2(Slice(binary, kk, SparseSliceIndex(kk, 1)))
            terms == IF pos0 = <<>> THEN ""
                     ELSE IF Len(fac) < 3 THEN "IndexError"
                     ELSE SparseTermError(pos0, 1, fac[c[1] + 1], fac[c[2] + 1], rank)
        IN  IF terms # "" THEN terms
            ELSE IF Bc(rank, Rows(Lambda)) = 0 \/ Bc(rank, Cols(Lambda)) = 0
                 THEN "ValueError"
            ELSE ""

\* temp1 and temp2 after the loop over pos0: np.zeros(rank) and
\* np.zeros((rank, rank)) with every term added in place.
RECURSIVE SparseTemp1(_, _, _, _, _, _)
SparseTemp1(pos0, t, a, b, ys, rank) ==
    IF t > Len(pos0) THEN ZeroVec(rank)
    ELSE LET var == BcVecMul(a[pos0[t][1]], b[pos0[t][2]])
         IN  VecAdd(BcVec(VecScale(ys[pos0[t][1]][pos0[t][2]], var), rank),
                    SparseTemp1(pos0, t + 1, a, b, ys, rank))

RECURSIVE SparseTemp2(_, _, _, _, _)
SparseTemp2(pos0, t, a, b, rank) ==
    IF t > Len(pos0) THEN ZeroMat(rank, rank)
    ELSE LET var == BcVecMul(a[pos0[t][1]], b[pos0[t][2]])
         IN  MatAdd(BcMat(Outer(var, var), rank, rank),
                    SparseTemp2(pos0, t + 1, a, b, rank))

\* var_Lambda and tau * temp1 + var_mu0 of row i in the sparse strategy.
SparseLambda(binary, tau0, fac, Lambda, kk, i) ==
    LET c == SparseCofactors(kk)
        rank == Cols(fac[kk + 1])
        pos0 == WhereNZ2(Slice(binary, kk, SparseSliceIndex(kk, i)))
    IN  IF pos0 = <<>> THEN BcMatAdd(ZeroMat(rank, rank), Lambda)
        ELSE BcMatAdd(MatScale(tau0, SparseTemp2(pos0, 1, fac[c[1] + 1],
                                                 fac[c[2] + 1], rank)),
                      Lambda)

SparseRhs(sparse, binary, tau0, fac, mu, Lambda, kk, i) ==
    LET c == SparseCofactors(kk)
        rank == Cols(fac[kk + 1])
        idx == SparseSliceIndex(kk, i)
        pos0 == WhereNZ2(Slice(binary, kk, idx))
        var_mu0 == MatVec(Lambda, mu)
    IN  IF pos0 = <<>> THEN BcVecAdd(ZeroVec(rank), var_mu0)
        ELSE BcVecAdd(VecScale(tau0, SparseTemp1(pos0, 1, fac[c[1] + 1],
                                                 fac[c[2] + 1],
                                                 Slice(sparse, kk, idx), rank)),
                      var_mu0)

\* (var_Lambda + var_Lambda.T) / 2, kept times two; the sum is broadcast
\* when var_Lambda has one row or one column.
Sym2(L) == BcMatAdd(L, Transpose(L))

\* inv raises LinAlgError exactly on a singular matrix.
InvFails(L) == Det(Sym2(L)) = 0

\* The exception a row with var_Lambda = lam and right-hand side rhs raises
\* before its draw, "" if none: var_Lambda + var_Lambda.T, inv, and the
\* product of the inverse with the right-hand side.
RowError(lam, rhs) ==
    IF Bc(Rows(lam), Cols(lam)) = 0 THEN "ValueError"
    ELSE IF InvFails(lam) THEN "LinAlgError"
    ELSE IF Len(rhs) # Bc(Rows(lam), Cols(lam)) THEN "ValueError"
    ELSE ""

\* The exception factor[k][i, :] = mvnrnd(...) raises after the draw: the
\* drawn vector has 1 or rank entries, or cannot be assigned to the row.
AssignError(lam, rank) ==
    IF Bc(Rows(lam), Cols(lam)) \notin {1, rank} THEN "ValueError" ELSE ""

\* The first row, from row i on, that raises; 0 if none.
RECURSIVE FirstFailure(_, _, _, _)
FirstFailure(lams, rhss, rank, i) ==
    IF i > Len(lams) THEN 0
    ELSE IF RowError(lams[i], rhss[i]) # "" \/ AssignError(lams[i], rank) # "" THEN i
    ELSE FirstFailure(lams, rhss, rank, i + 1)

\* One call sample_factor(sparse, binary, tau0, fac, mu, Lambda, kk, vargin0),
\* up to the values of its multivariate normal draws, for matrices, a vector
\* mu and tensors that have at least one element, binary of sparse's shape:
\*   err     the exception raised, "" if the call returns
\*   lam     var_Lambda of every row that got as far as having one
\*   rhs     the right-hand side of those rows
\*   n       the number of rows drawn and assigned
\*   draws   the number of calls of mvnrnd
\*   warned  mvnrnd was given a covariance that is not positive definite
sample_factor(sparse, binary, tau0, fac, mu, Lambda, kk, vargin0) ==
    LET old == IF Len(fac) < kk + 1 THEN <<>> ELSE fac[kk + 1]
        dim == Rows(old)
        rank == Cols(old)
        strat == Strategy(dim, rank, ProdSeq(Shape3(sparse)), vargin0)
        pre == IF Len(fac) < kk + 1 THEN "IndexError"
               ELSE IF strat = 0 THEN DenseError(sparse, binary, fac, mu, Lambda, kk)
               ELSE IF strat = 1
               THEN (IF SparseMu0Error(mu, Lambda) # "" THEN SparseMu0Error(mu, Lambda)
                     ELSE IF kk > 2 \/ dim = 0 THEN ""
                     ELSE SparseError(sparse, binary, fac, mu, Lambda, kk))
               ELSE ""
        none == [err |-> pre, lam |-> <<>>, rhs |-> <<>>, n |-> 0, draws |-> 0,
                 warned |-> FALSE]
    IN  IF pre # "" \/ strat \notin {0, 1} \/ dim = 0 \/ kk > 2 THEN none
        ELSE
        LET lams == [i \in 1..dim |->
                       IF strat = 0 THEN DenseLambda(binary, tau0, fac, Lambda, kk, i)
                       ELSE SparseLambda(binary, tau0, fac, Lambda, kk, i)]
            rhss == [i \in 1..dim |->
                       IF strat = 0 THEN DenseRhs(sparse, tau0, fac, mu, Lambda, kk, i)
                       ELSE SparseRhs(sparse, binary, tau0, fac, mu, Lambda, kk, i)]
            bad == FirstFailure(lams, rhss, rank, 1)
            ran == IF bad = 0 THEN dim ELSE bad
            done == IF bad = 0 THEN dim ELSE bad - 1
            drawn == IF bad = 0 THEN dim
                     ELSE IF RowError(lams[bad], rhss[bad]) # "" THEN bad - 1
                     ELSE bad
        IN  [err |-> IF bad = 0 THEN ""
                     ELSE IF RowError(lams[bad], rhss[bad]) # ""
                     THEN RowError(lams[bad], rhss[bad])
                     ELSE AssignError(lams[bad], rank),
             lam |-> SubSeq(lams, 1, ran),
             rhs |-> SubSeq(rhss, 1, ran),
             n |-> done,
             draws |-> drawn,
             warned |-> \E i \in 1..drawn : ~IsPD(Sym2(lams[i]))]

\* factor[k][i, :] = mvnrnd(...) for the first n rows: the matrix old after
\* its rows 1..n were assigned the draws, in place (a draw of one entry is
\* broadcast over the row).
Assigned(old, n, draws) ==
    Arr2([i \in 1..Rows(old) |->
            IF i <= n THEN BcVec(draws[i], Cols(old)) ELSE old[i]])

----------------------------------------------------------------------------
(* Fractions: the result of a true division.  numpy divides by zero        *)
(* without raising: x / 0 is inf and 0 / 0 is nan.                         *)

Abs(x) == IF x < 0 THEN -x ELSE x

RECURSIVE Gcd(_, _)
Gcd(a, b) == IF b = 0 THEN a ELSE Gcd(b, a % b)

NaN == [kind |-> "nan", n |-> 0, d |-> 0]

\* inf and -inf: n holds the sign.
Inf == [kind |-> "inf", n |-> 1, d |-> 0]

NegInf == [kind |-> "inf", n |-> -1, d |-> 0]

\* n / d for integers: x / 0 is inf for x > 0, -inf for x < 0, nan for 0.
Q(n, d) ==
    IF d = 0 THEN (IF n = 0 THEN NaN ELSE IF n > 0 THEN Inf ELSE NegInf)
    ELSE LET g == Gcd(Abs(n), Abs(d))
             sg == IF d < 0 THEN -1 ELSE 1
         IN  [kind |-> "num", n |-> (sg * n) \div g, d |-> (sg * d) \div g]

QInt(x) == Q(x, 1)

\* -1, 0 or 1; the sign of an infinity is its n.
QSign(x) == IF x.n > 0 THEN 1 ELSE IF x.n < 0 THEN -1 ELSE 0

\* IEEE 754, as numpy's float64 has it: nan propagates, inf + -inf is nan.
QAdd(x, y) ==
    IF x.kind = "nan" \/ y.kind = "nan" THEN NaN
    ELSE IF x.kind = "inf" /\ y.kind = "inf" THEN (IF x.n = y.n THEN x ELSE NaN)
    ELSE IF x.kind = "inf" THEN x
    ELSE IF y.kind = "inf" THEN y
    ELSE Q(x.n * y.d + y.n * x.d, x.d * y.d)

\* x - y is x + (-y); the negation of nan is nan.
QSub(x, y) == QAdd(x, [y EXCEPT !.n = -y.n])

\* inf * 0 is nan; otherwise an infinite product has the product's sign.
QMul(x, y) ==
    IF x.kind = "nan" \/ y.kind = "nan" THEN NaN
    ELSE IF x.kind = "inf" \/ y.kind = "inf"
    THEN (IF QSign(x) * QSign(y) = 0 THEN NaN
          ELSE IF QSign(x) * QSign(y) > 0 THEN Inf ELSE NegInf)
    ELSE Q(x.n * y.n, x.d * y.d)

\* inf / inf is nan, x / inf is 0 for a finite x, inf / y has the sign of the
\* quotient (a zero of the model is the positive zero).
QDiv(x, y) ==
    IF x.kind = "nan" \/ y.kind = "nan" THEN NaN
    ELSE IF x.kind = "inf" /\ y.kind = "inf" THEN NaN
    ELSE IF x.kind = "inf"
    THEN (IF QSign(y) = 0 THEN x
          ELSE IF QSign(x) * QSign(y) < 0 THEN NegInf ELSE Inf)
    ELSE IF y.kind = "inf" THEN QInt(0)
    ELSE Q(x.n * y.d, x.d * y.n)

QAbs(x) ==
    IF x.kind = "nan" THEN NaN
    ELSE IF x.kind = "inf" THEN Inf
    ELSE Q(Abs(x.n), x.d)

RECURSIVE QSum(_)
QSum(s) == IF s = <<>> THEN QInt(0) ELSE QAdd(Head(s), QSum(Tail(s)))

----------------------------------------------------------------------------
(* Metrics, precision and hyperparameters.                                 *)

\* np.sum(np.abs(var - var_hat) / var) / var.shape[0], on fractions.
compute_mape(var, var_hat) ==
    QDiv(QSum([x \in 1..Len(var) |->
                  QDiv(QAbs(QSub(var[x], var_hat[x])), var[x])]),
         QInt(Len(var)))

\* np.sqrt(np.sum((var - var_hat) ** 2) / var.shape[0]): the radicand.
compute_rmse(var, var_hat) ==
    QDiv(QSum([x \in 1..Len(var) |->
                  QMul(QSub(var[x], var_hat[x]), QSub(var[x], var_hat[x]))]),
         QInt(Len(var)))

At(T, c) == T[c[1]][c[2]][c[3]]

\* np.where(cond) for a 3-D boolean array cond: the coordinates where it is
\* true, in row-major order.
Where3(cond) ==
    LET d == Shape3(cond)
        all == [x \in 1..(d[1] * d[2] * d[3]) |->
                  <<((x - 1) \div (d[2] * d[3])) + 1,
                    (((x - 1) \div d[3]) % d[2]) + 1,
                    ((x - 1) % d[3]) + 1>>]
        Holds(c) == At(cond, c)
    IN  SelectSeq(all, Holds)


\* tensor[pos] as a vector of fractions.
Take(T, pos) == [x \in 1..Len(pos) |-> QInt(At(T, pos[x]))]

TakeQ(T, pos) == [x \in 1..Len(pos) |-> At(T, pos[x])]

PosTrain(sparse) ==
    Where3([i \in 1..Len(sparse) |-> [j \in 1..Len(sparse[i]) |->
              [t \in 1..Len(sparse[i][j]) |-> sparse[i][j][t] # 0]]])

\* A test set that keeps the coordinates whose reference value is zero.
PosTestAllMissing(dense, sparse) ==
    Where3([i \in 1..Len(sparse) |-> [j \in 1..Len(sparse[i]) |->
              [t \in 1..Len(sparse[i][j]) |-> sparse[i][j][t] = 0]]])

PosTest(dense, sparse) ==
    Where3([i \in 1..Len(sparse) |-> [j \in 1..Len(sparse[i]) |->
              [t \in 1..Len(sparse[i][j]) |->
                  dense[i][j][t] # 0 /\ sparse[i][j][t] = 0]]])

\* binary_tensor = np.zeros(dim); binary_tensor[pos_train] = 1
BinaryTensor(d, pos) ==
    Arr3(
        [i \in 1..d[1] |-> [j \in 1..d[2] |-> [t \in 1..d[3] |->
            IF \E x \in 1..Len(pos) : pos[x] = <<i, j, t>> THEN 1 ELSE 0]]])

AlphaInv == 1000000

\* The parameters of the Gamma draw of sample_precision_tau, with
\* alpha = beta = 1 / AlphaInv: var_alpha, var_beta.
TauParams(sparse, hat, pos) ==
    [var_alpha |-> Q(2 + AlphaInv * Len(pos), 2 * AlphaInv),
     var_beta |-> Q(2 + AlphaInv * SumSeq([x \in 1..Len(pos) |->
                        (At(sparse, pos[x]) - At(hat, pos[x]))
                      * (At(sparse, pos[x]) - At(hat, pos[x]))]),
                    2 * AlphaInv)]

MaxTau == 2

MaxDraw == 2

\* mvnrnd(mean, cov) returns any vector of the mean's length: the draws
\* of the model are the constant vectors (v, ..., v), v in 1..MaxDraw.
NormalDraw(r, v) == Arr1([x \in 1..r |-> v])

\* The length of the pair sample_hyperparameter(factor_k, mu0, ...) draws;
\* 0 when dim * mat_bar + beta0 * mu0 cannot be broadcast (ValueError).
HyperSize(factor_k, mu0) == Bc(Cols(factor_k), Len(mu0))

\* The matrix line 535 inverts, times dim * (dim + beta0), for beta0 = 1,
\* W0 = np.eye(rank0) and mu0 = np.zeros(rank0):
\*   inv(W0) + cov_mat(factor_k)
\*           + dim * beta0 / (dim + beta0) * np.outer(mat_bar - mu0, mat_bar - mu0)
\* with cov_mat(factor_k) = sum of x x^T - dim * mat_bar mat_bar^T over the
\* rows x, and mat_bar = colsum / dim.  The three terms are broadcast.
HyperInner(factor_k, rank0) ==
    LET dim == Rows(factor_k)
        c == Cols(factor_k)
        colsum == [s \in 1..c |-> SumSeq([i \in 1..dim |-> factor_k[i][s]])]
        xx == MatMul(Transpose(factor_k), factor_k)
        dcov == Arr2([r \in 1..c |-> [s \in 1..c |->
                        dim * xx[r][s] - colsum[r] * colsum[s]]])
        m == BcVec(colsum, Bc(c, rank0))
    IN  BcMatAdd(BcMatAdd(MatScale(dim * (dim + 1), Eye(rank0)),
                          MatScale(dim + 1, dcov)),
                 Outer(m, m))

\* The exception sample_hyperparameter raises before its Wishart draw, ""
\* if none, in exact arithmetic: the sum of line 533 cannot be broadcast,
\* or the matrix of line 535 is singular.
HyperError(factor_k, rank0) ==
    IF HyperSize(factor_k, ZeroVec(rank0)) = 0 THEN "ValueError"
    ELSE IF Det(HyperInner(factor_k, rank0)) = 0 THEN "LinAlgError"
    ELSE ""

----------------------------------------------------------------------------
(* numpy's global generator, which mvnrnd, np.random.gamma and             *)
(* wishart(seed = None) all draw from.  Its state is -1 while it was never *)
(* seeded: it then starts from the entropy of the operating system, and    *)
(* every variate is possible.  np.random.seed(s) sets the state to s; from *)
(* then on the variates are a function of the state, and each call of a    *)
(* distribution moves the state on by one step.  The value a distribution  *)
(* returns is a function of its parameters and of the variate; the real    *)
(* value is not an integer, so the model maps (parameters, variate) onto   *)
(* its own support, one-to-one in the variate.                             *)

\* np.random.seed(s)
seed(s) == s

\* The state after one variate was taken.
RngNext(g) == (5 * g + 3) % 16

RECURSIVE RngAt(_, _)
\* The state after n variates were taken.
RngAt(g, n) == IF n = 0 THEN g ELSE RngAt(RngNext(g), n - 1)

\* The variate a seeded generator in state g hands out.
RngOut(g) == g \div 4

RECURSIVE FreeVariates(_)
\* All sequences us with us[x] in 0..(ns[x] - 1).
FreeVariates(ns) ==
    IF Len(ns) = 0 THEN {<<>>}
    ELSE {<<u>> \o t : u \in 0..(ns[1] - 1),
                        t \in FreeVariates(SubSeq(ns, 2, Len(ns)))}

\* The sequences of variates the generator in state g can hand out to
\* Len(ns) calls in a row, the x-th call distinguishing ns[x] variates.
Variates(g, ns) ==
    IF g < 0 THEN FreeVariates(ns)
    ELSE {[x \in 1..Len(ns) |-> RngOut(RngAt(g, x - 1))]}

\* The state of the generator after n calls.
RngAfter(g, n) == IF g < 0 THEN g ELSE RngAt(g, n)

\* The element of a support of n values that parameters summing to h and
\* the variate u select (1-based).
Pick(h, u, n) == ((h + u) % n) + 1

\* The sum of the entries of a matrix.
SumMat(M) == SumSeq([r \in 1..Rows(M) |-> SumSeq(M[r])])

\* A wishart that draws from a generator of its own, started from entropy.
WishartStateOwn(g) == -1

\* The generator wishart(..., seed = None) draws from: scipy takes the
\* global generator of numpy when seed is None.
WishartState(g) == g

\* What wishart(df, scale).rvs() can return for an r x r scale: symmetric
\* positive definite r x r matrices for r > 1.  rvs squeezes its result, so
\* for a 1 x 1 scale it returns a scalar, not a matrix.
WishartSeq(r) ==
    IF r = 1 THEN <<1, 2>>
    ELSE <<Eye(r),
           Arr2([x \in 1..r |-> [y \in 1..r |->
                   IF x = 1 /\ y = 1 THEN 2
                   ELSE IF x = y \/ (x <= 2 /\ y <= 2) THEN 1
                   ELSE 0]])>>

\* wishart(df = dim + nu0, scale = var_W_hyper, seed = None).rvs(): df and
\* scale are functions of factor_k.
wishart(factor_k, r, u) == WishartSeq(r)[Pick(SumMat(factor_k), u, 2)]

\* mvnrnd(var_mu_hyper, inv((dim + beta0) * var_Lambda_hyper)) of
\* sample_hyperparameter: the mean is a function of factor_k.
mvnrnd_hyper(factor_k, Lambda, r, u) ==
    NormalDraw(r, Pick(SumMat(factor_k) + SumMat(Lambda), u, MaxDraw))

\* mvnrnd(inv_var_Lambda @ rhs, inv_var_Lambda) of sample_factor, for a row
\* with precision lam and right-hand side rhs.
mvnrnd(lam, rhs, u) ==
    NormalDraw(Len(rhs), Pick(SumMat(lam) + SumSeq(rhs), u, MaxDraw))

\* np.random.gamma(var_alpha, 1 / var_beta)
gamma(params, u) == Pick(params.var_alpha.n + params.var_beta.n, u, MaxTau)

----------------------------------------------------------------------------
(* BGCP.                                                                   *)

MonitorEvery == 5

\* range(n)
range(n) == Arr1([x \in 1..n |-> x - 1])

\* A sweep that visits mode 2 before mode 1.
ModeOrderSwapped == <<0, 2, 1>>

\* The modes of one sweep in the order they are processed:
\* for k in range(len(dim)).
ModeOrder == range(3)

\* Position of the mode loop after mode kk: the next mode, or -1.
NextMode(kk) ==
    LET at == CHOOSE x \in 1..Len(ModeOrder) : ModeOrder[x] = kk
    IN  IF at < Len(ModeOrder) THEN ModeOrder[at + 1] ELSE -1

\* The sweep loop runs while it < burn_iter + gibbs_iter.
MoreSweeps(i) == i < burn_iter + gibbs_iter

\* A test that also accumulates the last burn-in sweep.
CollectsEarly(i) == i + 1 >= burn_iter

\* if it + 1 > burn_iter
Collects(i) == i + 1 > burn_iter

\* A test that prints the metrics in every fifth sweep of either phase.
MonitorsInAnyPhase(i) == (i + 1) % MonitorEvery = 0

\* if (it + 1) % 5 == 0 and it < burn_iter
Monitors(i) == (i + 1) % MonitorEvery = 0 /\ i < burn_iter

\* The factor list handed to sample_factor (the caller's list itself).
FactorArg == factor

\* The matrix handed to sample_hyperparameter for mode kk.
HyperArg(kk) == factor[kk + 1]

\* A precision that changes between the factor draws of a sweep.
TauArgRedrawn == IF trace.tread = <<>> THEN tau ELSE (tau % MaxTau) + 1

\* The precision handed to sample_factor.
TauArg == tau

\* Sweep s (counted from 1) is one of the gibbs_iter sweeps after burn-in.
InCollection(s) == s \in (burn_iter + 1)..(burn_iter + gibbs_iter)

EmptyTrace ==
    [events |-> <<>>,      \* the steps of the current sweep, in order
     start |-> <<>>,       \* per mode not yet resampled: its matrix when the sweep began
     tau_start |-> 0,      \* tau when the current sweep began
     hread |-> <<>>,       \* the matrix the last sample_hyperparameter read
     fread |-> <<>>,       \* the factor list the last sample_factor read
     hdrawn |-> <<>>,      \* the pair the last sample_hyperparameter returned
     hused |-> <<>>,       \* the pair the last sample_factor was given
     tread |-> <<>>,       \* per mode: the tau sample_factor was given
     tau_params |-> <<>>,  \* the parameters of the sweep's Gamma draw
     tau_draws |-> 0,      \* Gamma draws of the run so far
     samples |-> <<>>,     \* the samples accumulated so far
     latest |-> <<<<>>, <<>>, <<>>>>,  \* per mode: the rows mvnrnd returned last
     monitored |-> <<>>]   \* the sweeps (it + 1) that printed metrics

NewSweep(tr) ==
    [tr EXCEPT !.events = <<>>, !.start = factor, !.tau_start = tau,
               !.hread = <<>>, !.fread = <<>>, !.hdrawn = <<>>, !.hused = <<>>,
               !.tread = <<>>,
               !.tau_params = <<>>]

\* Lines 581-599: everything before the sweep loop.
Setup ==
    /\ pc = "init"
    /\ IF Len(factor) = 0
       THEN /\ pc' = "error"
            /\ err' = "IndexError"
            /\ UNCHANGED <<pos_train, pos_test, binary_tensor, tau, factor_plus,
                           tensor_hat_plus, it, trace>>
       ELSE LET dim == Shape3(sparse_tensor)
                rank == Cols(factor[1])
            IN  /\ pos_train' = PosTrain(sparse_tensor)
                /\ pos_test' = PosTest(dense_tensor, sparse_tensor)
                /\ binary_tensor' = BinaryTensor(dim, PosTrain(sparse_tensor))
                /\ tau' = 1
                /\ factor_plus' = [x \in 1..3 |-> ZeroMat(dim[x], rank)]
                /\ tensor_hat_plus' = ZeroTen(dim)
                /\ it' = 0
                /\ pc' = IF MoreSweeps(0) THEN "hyper" ELSE "final"
                /\ trace' = [NewSweep(trace) EXCEPT !.tau_start = 1]
                /\ err' = err
    /\ k' = ModeOrder[1]
    /\ UNCHANGED <<rng, caller, arg, ret>>
    /\ UNCHANGED <<dense_tensor, sparse_tensor, factor, burn_iter, gibbs_iter,
                   vargin, var_mu_hyper, var_Lambda_hyper, tensor_hat,
                   out_tensor, out_factor, mape, rmse, row_Lambda, row_rhs,
                   n_drawn, warned>>

\* Line 602: sample_hyperparameter(factor[k], mu0, beta0, W0, nu0), with
\* rank = factor[0].shape[1], beta0 = 1, nu0 = rank, mu0 = zeros(rank).
SampleHyper ==
    /\ pc = "hyper"
    /\ IF Len(factor) < k + 1
       THEN /\ pc' = "error"
            /\ err' = "IndexError"
            /\ UNCHANGED <<var_mu_hyper, var_Lambda_hyper, rng, trace>>
       ELSE LET rank == Cols(factor[1])
                r == HyperSize(HyperArg(k), ZeroVec(rank))
            IN  IF HyperError(HyperArg(k), rank) # ""
                THEN /\ pc' = "error"
                     /\ err' = HyperError(HyperArg(k), rank)
                     /\ UNCHANGED <<var_mu_hyper, var_Lambda_hyper, rng, trace>>
                ELSE IF r = 1
                \* Line 538: the Wishart draw was made and is a scalar; inv
                \* raises LinAlgError on it, as it takes arrays of two or
                \* more dimensions.
                THEN /\ pc' = "error"
                     /\ err' = "LinAlgError"
                     /\ rng' = RngAfter(rng, 1)
                     /\ UNCHANGED <<var_mu_hyper, var_Lambda_hyper>>
                     /\ trace' = [trace EXCEPT
                           !.events = Append(@, <<"hyper", k>>),
                           !.hread = HyperArg(k)]
                ELSE /\ \E us \in Variates(WishartState(rng), <<2>>) :
                          \E vs \in Variates(RngAfter(rng, 1), <<MaxDraw>>) :
                            \E L \in {wishart(HyperArg(k), r, us[1])} :
                              /\ var_Lambda_hyper' = L
                              /\ var_mu_hyper' = mvnrnd_hyper(HyperArg(k), L, r, vs[1])
                     /\ rng' = RngAfter(rng, 2)
                     /\ pc' = "factor"
                     /\ err' = err
                     /\ trace' = [trace EXCEPT
                           !.events = Append(@, <<"hyper", k>>),
                           !.hread = HyperArg(k),
                           !.hdrawn = <<var_mu_hyper', var_Lambda_hyper'>>,
                           !.fread = <<>>, !.hused = <<>>]
    /\ n_drawn' = 0
    /\ warned' = FALSE
    /\ UNCHANGED <<caller, arg, ret>>
    /\ UNCHANGED <<dense_tensor, sparse_tensor, factor, burn_iter, gibbs_iter,
                   vargin, it, k, pos_train, pos_test, binary_tensor, tau,
                   tensor_hat, factor_plus, tensor_hat_plus, out_tensor,
                   out_factor, mape, rmse, row_Lambda, row_rhs>>

\* Lines 603-604: factor[k] = sample_factor(sparse_tensor, binary_tensor, tau,
\* factor, var_mu_hyper, var_Lambda_hyper, k), and the step of the mode loop.
SampleFactor ==
    /\ pc = "factor"
    /\ \E res \in {sample_factor(sparse_tensor, binary_tensor, TauArg, FactorArg,
                                 var_mu_hyper, var_Lambda_hyper, k, vargin)} :
           /\ \E us \in Variates(rng, [i \in 1..res.draws |-> MaxDraw]) :
                LET draws == [i \in 1..res.draws |->
                                mvnrnd(res.lam[i], res.rhs[i], us[i])]
                IN  factor' = [factor EXCEPT ![k + 1] = Assigned(@, res.n, draws)]
           /\ rng' = RngAfter(rng, res.draws)
           /\ n_drawn' = res.n
           /\ warned' = res.warned
           /\ err' = res.err
           /\ IF res.err # "" THEN pc' = "error" /\ k' = k
              ELSE IF NextMode(k) >= 0 THEN pc' = "hyper" /\ k' = NextMode(k)
              ELSE pc' = "combine" /\ k' = k
    /\ trace' = [trace EXCEPT
          !.events = Append(@, <<"factor", k>>),
          !.fread = FactorArg,
          !.tread = Append(@, TauArg),
          !.hused = <<var_mu_hyper, var_Lambda_hyper>>,
          !.latest = [@ EXCEPT ![k + 1] =
                        SubSeq(factor'[k + 1], 1, n_drawn')],
          !.start = [@ EXCEPT ![k + 1] = <<>>]]
    \* The pair is not read again before line 602 assigns it: forgotten.
    /\ var_mu_hyper' = <<>>
    /\ var_Lambda_hyper' = <<>>
    /\ UNCHANGED <<caller, arg, ret>>
    /\ UNCHANGED <<dense_tensor, sparse_tensor, burn_iter, gibbs_iter, vargin,
                   it, pos_train, pos_test, binary_tensor, tau, tensor_hat,
                   factor_plus, tensor_hat_plus, out_tensor, out_factor, mape,
                   rmse, row_Lambda, row_rhs>>

\* Line 605: tensor_hat = cp_combine(factor)
Combine ==
    /\ pc = "combine"
    /\ tensor_hat' = cp_combine(factor)
    /\ pc' = "tau"
    /\ trace' = [trace EXCEPT !.events = Append(@, <<"combine", it>>),
                               !.hread = <<>>, !.fread = <<>>,
                               !.hdrawn = <<>>, !.hused = <<>>]
    /\ n_drawn' = 0
    /\ warned' = FALSE
    /\ UNCHANGED <<rng, caller, arg, ret>>
    /\ UNCHANGED <<dense_tensor, sparse_tensor, factor, burn_iter, gibbs_iter,
                   vargin, it, k, pos_train, pos_test, binary_tensor, tau,
                   var_mu_hyper, var_Lambda_hyper, factor_plus, tensor_hat_plus,
                   out_tensor, out_factor, mape, rmse, err, row_Lambda, row_rhs>>

\* Line 606: tau = sample_precision_tau(sparse_tensor, tensor_hat, pos_train,
\* alpha, beta)
SampleTau ==
    /\ pc = "tau"
    /\ \E us \in Variates(rng, <<MaxTau>>) :
         tau' = gamma(TauParams(sparse_tensor, tensor_hat, pos_train), us[1])
    /\ rng' = RngAfter(rng, 1)
    /\ pc' = "end"
    /\ trace' = [trace EXCEPT
          !.events = Append(@, <<"tau", it>>),
          !.tau_params = TauParams(sparse_tensor, tensor_hat, pos_train),
          !.tau_draws = @ + 1]
    /\ UNCHANGED <<caller, arg, ret>>
    /\ UNCHANGED <<dense_tensor, sparse_tensor, factor, burn_iter, gibbs_iter,
                   vargin, it, k, pos_train, pos_test, binary_tensor,
                   var_mu_hyper, var_Lambda_hyper, tensor_hat, factor_plus,
                   tensor_hat_plus, out_tensor, out_factor, mape, rmse, err,
                   row_Lambda, row_rhs, n_drawn, warned>>

TenAdd(A, B) ==
    Arr3(
        [i \in 1..Len(A) |-> [j \in 1..Len(A[i]) |-> [t \in 1..Len(A[i][j]) |->
            A[i][j][t] + B[i][j][t]]]])

\* Lines 607-614: accumulation, monitoring, and the step of the sweep loop.
EndSweep ==
    /\ pc = "end"
    /\ IF Collects(it)
       THEN /\ factor_plus' = [x \in 1..3 |-> MatAdd(factor_plus[x], factor[x])]
            /\ tensor_hat_plus' = TenAdd(tensor_hat_plus, tensor_hat)
       ELSE UNCHANGED <<factor_plus, tensor_hat_plus>>
    /\ IF Monitors(it)
       THEN /\ mape' = compute_mape(Take(dense_tensor, pos_test),
                                    Take(tensor_hat, pos_test))
            /\ rmse' = compute_rmse(Take(dense_tensor, pos_test),
                                    Take(tensor_hat, pos_test))
       ELSE UNCHANGED <<mape, rmse>>
    /\ it' = it + 1
    /\ k' = ModeOrder[1]
    /\ pc' = IF MoreSweeps(it + 1) THEN "hyper" ELSE "final"
    /\ trace' = [NewSweep(trace) EXCEPT
          !.samples = IF InCollection(it + 1)
                      THEN Append(@, [f |-> factor, t |-> tensor_hat, sweep |-> it + 1])
                      ELSE @,
          !.monitored = IF Monitors(it) THEN Append(@, it + 1) ELSE @]
    \* tensor_hat is not read again before line 605 or 617 assigns it: forgotten.
    /\ tensor_hat' = <<>>
    /\ UNCHANGED <<rng, caller, arg, ret>>
    /\ UNCHANGED <<dense_tensor, sparse_tensor, factor, burn_iter, gibbs_iter,
                   vargin, pos_train, pos_test, binary_tensor, tau,
                   var_mu_hyper, var_Lambda_hyper, out_tensor, out_factor, err,
                   row_Lambda, row_rhs, n_drawn, warned>>

\* A line 616 that writes into the caller's list: the accumulated sums end
\* up in the caller's matrices.
ReboundInPlace(list, new) == factor_plus

\* Line 616, factor = [i / gibbs_iter for i in factor_plus], binds the local
\* name to a new list: the caller's list, given the new list, stays as it is.
Rebound(list, new) == list

\* Lines 616-622: the posterior means and the final metrics.
Finalize ==
    /\ pc = "final"
    /\ out_factor' = [x \in 1..Len(factor_plus) |->
                        [i \in 1..Rows(factor_plus[x]) |->
                            [s \in 1..Cols(factor_plus[x]) |->
                                Q(factor_plus[x][i][s], gibbs_iter)]]]
    /\ out_tensor' = [i \in 1..Len(tensor_hat_plus) |->
                        [j \in 1..Len(tensor_hat_plus[i]) |->
                            [t \in 1..Len(tensor_hat_plus[i][j]) |->
                                Q(tensor_hat_plus[i][j][t], gibbs_iter)]]]
    /\ mape' = compute_mape(Take(dense_tensor, pos_test),
                            TakeQ(out_tensor', pos_test))
    /\ rmse' = compute_rmse(Take(dense_tensor, pos_test),
                            TakeQ(out_tensor', pos_test))
    /\ pc' = "done"
    /\ factor' = Rebound(factor, out_factor')
    /\ UNCHANGED <<rng, caller, arg, ret>>
    /\ UNCHANGED <<dense_tensor, sparse_tensor, burn_iter, gibbs_iter,
                   vargin, it, k, pos_train, pos_test, binary_tensor, tau,
                   var_mu_hyper, var_Lambda_hyper, tensor_hat, factor_plus,
                   tensor_hat_plus, err, row_Lambda, row_rhs, n_drawn, warned,
                   trace>>

Next ==
    \/ Setup
    \/ SampleHyper
    \/ SampleFactor
    \/ Combine
    \/ SampleTau
    \/ EndSweep
    \/ Finalize

----------------------------------------------------------------------------
(* Inputs and specifications.                                              *)

MaxBurn == 1

MaxGibbs == 2

\* All tensors of shape d with entries in vals.
TensorsOver(d, vals) == [1..d[1] -> [1..d[2] -> [1..d[3] -> vals]]]

\* A factor matrix of the caller: rows x rank, every entry 3.
StartMatrix(rows, rank) == Arr2([i \in 1..rows |-> [s \in 1..rank |-> 3]])

\* The caller's factor list for a tensor of shape d.
StartFactor(d, rank) == [x \in 1..3 |-> StartMatrix(d[x], rank)]

NoMetric == [kind |-> "none", n |-> 0, d |-> 0]

\* The state when BGCP(dense, sparse, fac, burn, gibbs) is entered with the
\* generator in state g, by a caller who keeps c.
Entered(dense, sparse, fac, burn, gibbs, g, c) ==
    /\ dense_tensor = dense
    /\ sparse_tensor = sparse
    /\ factor = fac
    /\ burn_iter = burn
    /\ gibbs_iter = gibbs
    /\ vargin = 0
    /\ pc = "init"
    /\ it = 0
    /\ k = 0
    /\ pos_train = <<>>
    /\ pos_test = <<>>
    /\ binary_tensor = <<>>
    /\ tau = 0
    /\ var_mu_hyper = <<>>
    /\ var_Lambda_hyper = <<>>
    /\ tensor_hat = <<>>
    /\ factor_plus = <<>>
    /\ tensor_hat_plus = <<>>
    /\ out_tensor = <<>>
    /\ out_factor = <<>>
    /\ mape = NoMetric
    /\ rmse = NoMetric
    /\ err = ""
    /\ row_Lambda = <<>>
    /\ row_rhs = <<>>
    /\ n_drawn = 0
    /\ warned = FALSE
    /\ rng = g
    /\ caller = c
    /\ arg = <<>>
    /\ ret = <<>>
    /\ trace = EmptyTrace

\* The state when BGCP(dense, sparse, fac, burn, gibbs) is entered and the
\* generator was never seeded.
Enter(dense, sparse, fac, burn, gibbs) ==
    Entered(dense, sparse, fac, burn, gibbs, -1, <<>>)

EngineDims == <<2, 1, 1>>

\* The inputs on which runs with more than one collection sweep are taken:
\* those with a training entry and a test entry.
BothSets(dense, sparse) == PosTrain(sparse) # <<>> /\ PosTest(dense, sparse) # <<>>

\* The column counts of the caller's factor matrices (rank = 10 in the
\* notebook's cell).
EngineRanks == {1, 2}

Init ==
    \E dense \in TensorsOver(EngineDims, {0, 2}),
       sparse \in TensorsOver(EngineDims, {0, 2}),
       burn \in 0..MaxBurn, gibbs \in 0..MaxGibbs, rank \in EngineRanks :
        /\ gibbs <= 1 \/ BothSets(dense, sparse)
        /\ Enter(dense, sparse, StartFactor(EngineDims, rank), burn, gibbs)

Spec == Init /\ [][Next]_vars

\* One input with a training entry and a test entry, every pair of counts.
InitFair ==
    \E burn \in 0..MaxBurn, gibbs \in 0..MaxGibbs, rank \in EngineRanks :
        Enter(<<<<<<2>>>>, <<<<2>>>>>>, <<<<<<2>>>>, <<<<0>>>>>>,
              StartFactor(EngineDims, rank), burn, gibbs)

\* The position in the code moves on.  Every step of Next changes pc, and
\* a run that has neither returned nor raised has a statement to execute.
Leave ==
    /\ pc \notin {"done", "error"}
    /\ pc' \in {"init", "hyper", "factor", "combine", "tau", "end", "final",
               "done", "error"}
    /\ pc' # pc

\* The interpreter keeps executing the function: it does not stop at a
\* statement.
FairSpec == InitFair /\ [][Next]_vars /\ WF_pc(Leave)

----------------------------------------------------------------------------
(* sample_factor called on its own.                                        *)

\* The state when sample_factor(sparse, binary, tau0, fac, mu, Lambda, kk,
\* vargin0) is entered at position start, with binary the mask of sparse;
\* a holds what the model fixes about the call's row loop.
EnteredCall(sparse, tau0, fac, mu, Lambda, kk, vargin0, start, a) ==
    /\ dense_tensor = sparse
    /\ sparse_tensor = sparse
    /\ factor = fac
    /\ burn_iter = 0
    /\ gibbs_iter = 0
    /\ vargin = vargin0
    /\ pc = start
    /\ it = 0
    /\ k = kk
    /\ pos_train = PosTrain(sparse)
    /\ pos_test = <<>>
    /\ binary_tensor = BinaryTensor(Shape3(sparse), PosTrain(sparse))
    /\ tau = tau0
    /\ var_mu_hyper = mu
    /\ var_Lambda_hyper = Lambda
    /\ tensor_hat = <<>>
    /\ factor_plus = <<>>
    /\ tensor_hat_plus = <<>>
    /\ out_tensor = <<>>
    /\ out_factor = <<>>
    /\ mape = NoMetric
    /\ rmse = NoMetric
    /\ err = ""
    /\ row_Lambda = <<>>
    /\ row_rhs = <<>>
    /\ n_drawn = 0
    /\ warned = FALSE
    /\ rng = -1
    /\ caller = <<>>
    /\ arg = a
    /\ ret = <<>>
    /\ trace = EmptyTrace

\* The call seen as one step, from entry to return or raise.
EnterCall(sparse, tau0, fac, mu, Lambda, kk, vargin0) ==
    EnteredCall(sparse, tau0, fac, mu, Lambda, kk, vargin0, "sf_call", <<>>)

\* The variates the rows are drawn with.
DrawInputs == {0, 1}

\* Lines 379-445: one call of sample_factor, from entry to return or raise.
CallSampleFactor ==
    /\ pc = "sf_call"
    /\ \E res \in {sample_factor(sparse_tensor, binary_tensor, tau, factor,
                                 var_mu_hyper, var_Lambda_hyper, k, vargin)} :
           /\ \E u \in DrawInputs :
                LET draws == [i \in 1..res.draws |->
                                mvnrnd(res.lam[i], res.rhs[i], u)]
                IN  factor' = [factor EXCEPT ![k + 1] = Assigned(@, res.n, draws)]
           /\ row_Lambda' = res.lam
           /\ row_rhs' = res.rhs
           /\ n_drawn' = res.n
           /\ warned' = res.warned
           /\ err' = res.err
           /\ pc' = IF res.err = "" THEN "sf_done" ELSE "error"
    /\ trace' = [trace EXCEPT !.fread = factor]
    /\ UNCHANGED <<rng, caller, arg, ret>>
    /\ UNCHANGED <<dense_tensor, sparse_tensor, burn_iter, gibbs_iter, vargin,
                   it, k, pos_train, pos_test, binary_tensor, tau, var_mu_hyper,
                   var_Lambda_hyper, tensor_hat, factor_plus, tensor_hat_plus,
                   out_tensor, out_factor, mape, rmse>>

NextFactor == CallSampleFactor

FactorDims == <<2, 2, 3>>

\* Factor matrices of rank 2 for a tensor of shape FactorDims; the rows of
\* each differ.
FixedFactor ==
    << <<<<1, 2>>, <<2, 1>>>>,
       <<<<1, 3>>, <<2, 1>>>>,
       <<<<1, 1>>, <<3, 2>>, <<2, 3>>>> >>

CoordsOf(d) == {<<i, j, t>> : i \in 1..d[1], j \in 1..d[2], t \in 1..d[3]}

MaxObs == 2

\* The observation tensor with the coordinates in obs observed; the value
\* at a coordinate tells the coordinates apart.
Observed(d, obs) ==
    Arr3([i \in 1..d[1] |-> [j \in 1..d[2] |-> [t \in 1..d[3] |->
        IF <<i, j, t>> \in obs
        THEN 1 + (i - 1) * d[2] * d[3] + (j - 1) * d[3] + (t - 1)
        ELSE 0]]])

\* Hyperparameter precisions handed to sample_factor: positive definite,
\* singular, and indefinite.
LambdaInputs ==
    { <<<<2, 1>>, <<1, 2>>>>,
      <<<<1, 1>>, <<1, 1>>>>,
      <<<<1, 2>>, <<2, 1>>>> }

\* The precisions tau handed to sample_factor.
TauInputs == {1, 2}

InitFactor ==
    \E obs \in SUBSET CoordsOf(FactorDims), tau0 \in TauInputs,
       Lambda \in LambdaInputs, kk \in 0..2, vargin0 \in {0, 1} :
        /\ Cardinality(obs) <= MaxObs
        /\ EnterCall(Observed(FactorDims, obs), tau0, FixedFactor, <<1, 2>>,
                     Lambda, kk, vargin0)

SpecFactor == InitFactor /\ [][NextFactor]_vars

----------------------------------------------------------------------------
(* sample_factor row by row.  The code's loop is for i in range(dim); the  *)
(* model runs it over the rows in the order arg.order, one of which is the *)
(* code's, and gives row i the variate arg.u[i].                           *)

\* Lines 380-399 and 404-405: everything before the row loop.  The dense
\* strategy computes var3 and var4 here, for all rows; the sparse strategy
\* computes var_mu0 here, and var_Lambda and the right-hand side of a row
\* inside the loop.
EnterLoop ==
    /\ pc = "rows_call"
    /\ LET dim == Rows(factor[k + 1])
           rank == Cols(factor[k + 1])
           strat == Strategy(dim, rank, ProdSeq(Shape3(sparse_tensor)), vargin)
           pre == IF strat = 0
                  THEN DenseError(sparse_tensor, binary_tensor, factor,
                                  var_mu_hyper, var_Lambda_hyper, k)
                  ELSE IF strat = 1
                  THEN SparseMu0Error(var_mu_hyper, var_Lambda_hyper)
                  ELSE ""
       IN  /\ vargin' = strat
           /\ err' = pre
           /\ pc' = IF pre # "" THEN "error"
                    ELSE IF strat \in {0, 1} /\ dim > 0 /\ k <= 2 THEN "row"
                    ELSE "sf_done"
           /\ IF strat = 0 /\ pre = ""
              THEN /\ row_Lambda' = [i \in 1..dim |->
                         DenseLambda(binary_tensor, tau, factor, var_Lambda_hyper, k, i)]
                   /\ row_rhs' = [i \in 1..dim |->
                         DenseRhs(sparse_tensor, tau, factor, var_mu_hyper,
                                  var_Lambda_hyper, k, i)]
              ELSE /\ row_Lambda' = [i \in 1..dim |-> <<>>]
                   /\ row_rhs' = [i \in 1..dim |-> <<>>]
    /\ it' = 0
    /\ trace' = [trace EXCEPT !.fread = factor]
    /\ UNCHANGED <<dense_tensor, sparse_tensor, factor, burn_iter, gibbs_iter,
                   k, pos_train, pos_test, binary_tensor, tau, var_mu_hyper,
                   var_Lambda_hyper, tensor_hat, factor_plus, tensor_hat_plus,
                   out_tensor, out_factor, mape, rmse, n_drawn, warned, rng,
                   caller, arg, ret>>

\* Lines 400-403, and 407-418, 420-431, 433-444: the loop body for the row
\* that is next in arg.order.
RowStep ==
    /\ pc = "row"
    /\ LET i == arg.order[it + 1]
           dim == Rows(factor[k + 1])
           bad == IF vargin = 0 THEN ""
                  ELSE SparseError(sparse_tensor, binary_tensor, factor,
                                   var_mu_hyper, var_Lambda_hyper, k)
       IN  IF bad # ""
           THEN /\ pc' = "error"
                /\ err' = bad
                /\ UNCHANGED <<factor, row_Lambda, row_rhs, n_drawn, warned, it>>
           ELSE
           \E lam \in {IF vargin = 0 THEN row_Lambda[i]
                        ELSE SparseLambda(binary_tensor, tau, factor,
                                          var_Lambda_hyper, k, i)} :
           \E rhs \in {IF vargin = 0 THEN row_rhs[i]
                        ELSE SparseRhs(sparse_tensor, binary_tensor, tau, factor,
                                       var_mu_hyper, var_Lambda_hyper, k, i)} :
              /\ row_Lambda' = [row_Lambda EXCEPT ![i] = lam]
              /\ row_rhs' = [row_rhs EXCEPT ![i] = rhs]
              /\ IF RowError(lam, rhs) # ""
                 THEN /\ pc' = "error"
                      /\ err' = RowError(lam, rhs)
                      /\ UNCHANGED <<factor, n_drawn, warned, it>>
                 ELSE IF AssignError(lam, Cols(factor[k + 1])) # ""
                 THEN /\ pc' = "error"
                      /\ err' = AssignError(lam, Cols(factor[k + 1]))
                      /\ warned' = (warned \/ ~IsPD(Sym2(lam)))
                      /\ UNCHANGED <<factor, n_drawn, it>>
                 ELSE /\ factor' = [factor EXCEPT ![k + 1][i] =
                                       BcVec(mvnrnd(lam, rhs, arg.u[i]),
                                             Cols(factor[k + 1]))]
                      /\ n_drawn' = n_drawn + 1
                      /\ warned' = (warned \/ ~IsPD(Sym2(lam)))
                      /\ it' = it + 1
                      /\ pc' = IF it + 1 = dim THEN "sf_done" ELSE "row"
                      /\ err' = err
    /\ UNCHANGED <<dense_tensor, sparse_tensor, burn_iter, gibbs_iter, vargin,
                   k, pos_train, pos_test, binary_tensor, tau, var_mu_hyper,
                   var_Lambda_hyper, tensor_hat, factor_plus, tensor_hat_plus,
                   out_tensor, out_factor, mape, rmse, rng, caller, arg, ret,
                   trace>>

NextRows ==
    \/ EnterLoop
    \/ RowStep

\* The orders in which n rows can be processed.
Orders(n) == {p \in [1..n -> 1..n] : \A x, y \in 1..n : p[x] = p[y] => x = y}

\* The variates given to the rows (row 1, row 2, row 3).
RowVariates == {<<0, 1, 0>>, <<1, 1, 0>>}

InitRows ==
    \E obs \in SUBSET CoordsOf(FactorDims), tau0 \in TauInputs,
       Lambda \in LambdaInputs, kk \in 0..2, vargin0 \in {0, 1},
       u \in RowVariates :
        \E order \in Orders(FactorDims[kk + 1]) :
            /\ Cardinality(obs) <= MaxObs
            /\ EnteredCall(Observed(FactorDims, obs), tau0, FixedFactor, <<1, 2>>,
                           Lambda, kk, vargin0, "rows_call",
                           [order |-> order, u |-> u])

SpecRows == InitRows /\ [][NextRows]_vars

----------------------------------------------------------------------------
(* BGCP called with factor matrices that do not fit the tensor.            *)

ConfigTensor == <<<<<<2>>>>, <<<<0>>>>>>

\* The caller's factor lists: one that fits ConfigTensor, and lists with a
\* row too many, a column too many, a column missing, a matrix missing, a
\* matrix too many.
ConfigFactors ==
    { StartFactor(<<2, 1, 1>>, 2),
      StartFactor(<<3, 1, 1>>, 2),
      StartFactor(<<2, 2, 1>>, 2),
      StartFactor(<<2, 1, 2>>, 2),
      <<StartMatrix(2, 3), StartMatrix(1, 2), StartMatrix(1, 2)>>,
      <<StartMatrix(2, 2), StartMatrix(1, 2), StartMatrix(1, 1)>>,
      <<StartMatrix(2, 2), StartMatrix(1, 1), StartMatrix(1, 1)>>,
      <<StartMatrix(2, 1), StartMatrix(1, 1), StartMatrix(1, 2)>>,
      <<StartMatrix(2, 2), StartMatrix(1, 2)>>,
      <<StartMatrix(2, 2), StartMatrix(1, 2), StartMatrix(1, 2), StartMatrix(1, 2)>> }

InitConfig ==
    \E fac \in ConfigFactors, burn \in 0..MaxBurn :
        Enter(<<<<<<2>>>>, <<<<2>>>>>>, ConfigTensor, fac, burn, 1)

SpecConfig == InitConfig /\ [][Next]_vars

----------------------------------------------------------------------------
(* BGCP called twice by a cell that seeds the generator before each call.  *)

\* The seeds of the calling cell.
Seeds == {1, 6, 11, 12}

\* The burn-in lengths of the seeded runs: none, one, one short of the
\* first monitored sweep, one monitored sweep, two monitored sweeps.
SeededBurns == {0, 1, 4, 5, 10}

\* What the cell keeps: its seed, a copy of the factor matrices it starts
\* every call from, the calls made, and what the first call returned.
CallerOf(s, fac) == [seed |-> s, factor |-> fac, calls |-> 1, returned |-> <<>>]

InitSeeded ==
    \E s \in Seeds,
       dense \in TensorsOver(EngineDims, {0, 2}),
       sparse \in TensorsOver(EngineDims, {0, 2}),
       burn \in SeededBurns, gibbs \in 1..MaxGibbs, rank \in EngineRanks :
        Entered(dense, sparse, StartFactor(EngineDims, rank), burn, gibbs,
                seed(s), CallerOf(s, StartFactor(EngineDims, rank)))

\* The cell seeds the generator as before and calls BGCP again, with the
\* same arrays, the same counts and a copy of the same factor matrices.
CallAgain ==
    /\ pc = "done"
    /\ caller.calls = 1
    /\ caller' = [caller EXCEPT !.calls = 2,
                                !.returned = <<out_tensor, out_factor>>]
    /\ rng' = seed(caller.seed)
    /\ factor' = caller.factor
    /\ pc' = "init"
    /\ it' = 0
    /\ k' = 0
    /\ pos_train' = <<>>
    /\ pos_test' = <<>>
    /\ binary_tensor' = <<>>
    /\ tau' = 0
    /\ var_mu_hyper' = <<>>
    /\ var_Lambda_hyper' = <<>>
    /\ tensor_hat' = <<>>
    /\ factor_plus' = <<>>
    /\ tensor_hat_plus' = <<>>
    /\ out_tensor' = <<>>
    /\ out_factor' = <<>>
    /\ mape' = NoMetric
    /\ rmse' = NoMetric
    /\ err' = ""
    /\ row_Lambda' = <<>>
    /\ row_rhs' = <<>>
    /\ n_drawn' = 0
    /\ warned' = FALSE
    /\ trace' = EmptyTrace
    /\ UNCHANGED <<dense_tensor, sparse_tensor, burn_iter, gibbs_iter, vargin,
                   arg, ret>>

NextSeeded ==
    \/ Setup
    \/ SampleHyper
    \/ SampleFactor
    \/ Combine
    \/ SampleTau
    \/ EndSweep
    \/ Finalize
    \/ CallAgain

SpecSeeded == InitSeeded /\ [][NextSeeded]_vars

----------------------------------------------------------------------------
(* The kernels called on their own.                                        *)

\* The state when a kernel is called with the arguments a.
EnterKernel(a) ==
    /\ dense_tensor = <<>>
    /\ sparse_tensor = <<>>
    /\ factor = <<>>
    /\ burn_iter = 0
    /\ gibbs_iter = 0
    /\ vargin = 0
    /\ pc = "k_call"
    /\ it = 0
    /\ k = 0
    /\ pos_train = <<>>
    /\ pos_test = <<>>
    /\ binary_tensor = <<>>
    /\ tau = 0
    /\ var_mu_hyper = <<>>
    /\ var_Lambda_hyper = <<>>
    /\ tensor_hat = <<>>
    /\ factor_plus = <<>>
    /\ tensor_hat_plus = <<>>
    /\ out_tensor = <<>>
    /\ out_factor = <<>>
    /\ mape = NoMetric
    /\ rmse = NoMetric
    /\ err = ""
    /\ row_Lambda = <<>>
    /\ row_rhs = <<>>
    /\ n_drawn = 0
    /\ warned = FALSE
    /\ rng = -1
    /\ caller = <<>>
    /\ arg = a
    /\ ret = <<>>
    /\ trace = EmptyTrace

\* What a kernel call leaves alone.
KernelFrame ==
    UNCHANGED <<dense_tensor, sparse_tensor, factor, burn_iter, gibbs_iter,
                vargin, it, k, pos_train, pos_test, binary_tensor, tau,
                var_mu_hyper, var_Lambda_hyper, tensor_hat, factor_plus,
                tensor_hat_plus, out_tensor, out_factor, mape, rmse, err,
                row_Lambda, row_rhs, n_drawn, warned, rng, caller, arg, trace>>

\* Lines 105-106: kr_prod(a, b)
CallKrProd ==
    /\ pc = "k_call"
    /\ arg.fn = "kr_prod"
    /\ ret' = kr_prod(arg.a, arg.b)
    /\ pc' = "k_done"
    /\ KernelFrame

\* Lines 167-168: cp_combine(var)
CallCpCombine ==
    /\ pc = "k_call"
    /\ arg.fn = "cp_combine"
    /\ ret' = cp_combine(arg.var)
    /\ pc' = "k_done"
    /\ KernelFrame

\* Lines 217-218: ten2mat(tensor, mode)
CallTen2mat ==
    /\ pc = "k_call"
    /\ arg.fn = "ten2mat"
    /\ ret' = ten2mat(arg.tensor, arg.mode)
    /\ pc' = "k_done"
    /\ KernelFrame

\* Lines 380-388 and 404: sample_factor up to the choice of its branch, for
\* a factor matrix of shape (dim, rank) and a tensor of total elements.
ChooseStrategy ==
    /\ pc = "k_call"
    /\ arg.fn = "strategy"
    /\ ret' = Strategy(arg.dim, arg.rank, arg.total, arg.vargin)
    /\ pc' = "k_done"
    /\ KernelFrame

NextKernels ==
    \/ CallKrProd
    \/ CallCpCombine
    \/ CallTen2mat
    \/ ChooseStrategy

MaxRows == 2

\* The column counts and the entries of the matrices handed to the kernels.
KernelRanks == {1, 2}

KernelEntries == {1, 2}

Matrices(m, r) == [1..m -> [1..r -> KernelEntries]]

\* The m x r matrix with the entries 1, 2, 3, ... in row-major order.
Ramp(m, r) == Arr2([i \in 1..m |-> [s \in 1..r |-> (i - 1) * r + s]])

\* The tensor of shape d with the entries base + 1, base + 2, ... in
\* row-major order.
RampTensor(d, base) ==
    Arr3([i \in 1..d[1] |-> [j \in 1..d[2] |-> [t \in 1..d[3] |->
        base + ((i - 1) * d[2] + (j - 1)) * d[3] + t]]])

\* The arrays of the notebook's example cells.
ExampleA == <<<<1, 2>>, <<3, 4>>>>

ExampleB == <<<<5, 6>>, <<7, 8>>, <<9, 10>>>>

ExampleFactor ==
    << <<<<1, 2>>, <<3, 4>>>>,
       <<<<1, 3>>, <<2, 4>>, <<5, 6>>>>,
       <<<<1, 5>>, <<2, 6>>, <<3, 7>>, <<4, 8>>>> >>

ExampleX ==
    << <<<<1, 2, 3, 4>>, <<3, 4, 5, 6>>>>,
       <<<<5, 6, 7, 8>>, <<7, 8, 9, 10>>>>,
       <<<<9, 10, 11, 12>>, <<11, 12, 13, 14>>>> >>

KrProdInputs ==
    {[fn |-> "kr_prod", a |-> ExampleA, b |-> ExampleB]}
    \cup {[fn |-> "kr_prod", a |-> Arr2(A), b |-> Arr2(B)] :
             A \in UNION {Matrices(m, 1) : m \in 1..MaxRows},
             B \in UNION {Matrices(n, 1) : n \in 1..MaxRows}}
    \cup {[fn |-> "kr_prod", a |-> Arr2(A), b |-> Arr2(B)] :
             A \in UNION {Matrices(m, 2) : m \in 1..MaxRows},
             B \in UNION {Matrices(n, 2) : n \in 1..MaxRows}}

CpCombineInputs ==
    {[fn |-> "cp_combine", var |-> ExampleFactor]}
    \cup UNION {{[fn |-> "cp_combine", var |-> <<Arr2(U), Arr2(V), Ramp(f, r)>>] :
                    U \in UNION {Matrices(m, r) : m \in 1..MaxRows},
                    V \in UNION {Matrices(n, r) : n \in 1..MaxRows},
                    f \in 1..MaxRows} : r \in KernelRanks}

Ten2matInputs ==
    {[fn |-> "ten2mat", tensor |-> ExampleX, mode |-> m] : m \in 0..2}
    \cup {[fn |-> "ten2mat", tensor |-> RampTensor(<<a, b, c>>, base), mode |-> m] :
             a \in 1..(MaxRows + 1), b \in 1..MaxRows, c \in 1..(MaxRows + 1),
             base \in {0, 10}, m \in 0..2}

\* The shapes <<dim, rank, rest, extra>> whose products are below 2^31.
Representable(t) ==
    /\ t[1] <= 2000000000 \div (t[2] * t[2])
    /\ t[3] + 1 <= (2000000000 \div (t[2] * t[2])) \div t[1]
    /\ t[4] > 0 => (t[2] = 1 /\ t[4] < t[1])

\* Shapes around the threshold: dim rows of rank columns, and a tensor of
\* dim * rest + extra elements (extra > 0: a matrix that does not fit the
\* tensor).
StrategyShapes ==
    {t \in {1, 2, 3, 25000000, 25000001, 100000000, 100000001}
            \X {1, 2, 10000, 10001}
            \X {1, 2, 25000000, 25000001, 100000000, 100000001}
            \X {0, 1} : Representable(t)}

StrategyInputs ==
    {[fn |-> "strategy", dim |-> t[1], rank |-> t[2], total |-> t[1] * t[3] + t[4],
      rest |-> t[3], extra |-> t[4], vargin |-> v] :
        t \in StrategyShapes, v \in {0, 1, 2}}

InitKernels ==
    \E a \in KrProdInputs \cup CpCombineInputs \cup Ten2matInputs
              \cup StrategyInputs :
        EnterKernel(a)

SpecKernels == InitKernels /\ [][NextKernels]_vars

----------------------------------------------------------------------------
(* Properties of the sweep loop.                                           *)

IsPrefix(a, b) == Len(a) <= Len(b) /\ a = SubSeq(b, 1, Len(a))

Last(a) == a[Len(a)]

\* The steps of sweep i (0-based) in the order 0, 1, 2.
Canonical(i) ==
    <<<<"hyper", 0>>, <<"factor", 0>>, <<"hyper", 1>>, <<"factor", 1>>,
      <<"hyper", 2>>, <<"factor", 2>>, <<"combine", i>>, <<"tau", i>>>>

InSweep == pc \in {"hyper", "factor", "combine", "tau", "end"}

\* The steps of a sweep happen in the order hyper 0, factor 0, hyper 1,
\* factor 1, hyper 2, factor 2, reconstruction, tau.
C1_Order ==
    /\ IsPrefix(trace.events, Canonical(it))
    /\ pc = "hyper" => Len(trace.events) = 2 * k
    /\ pc = "factor" => Len(trace.events) = 2 * k + 1
    /\ pc = "combine" => Len(trace.events) = 6
    /\ pc = "tau" => Len(trace.events) = 7
    /\ pc = "end" => Len(trace.events) = 8

\* When factor k is about to be resampled, the pair at hand was drawn in the
\* step just before, from factor k as it is now.
C1_HyperFresh ==
    pc = "factor" =>
        /\ Last(trace.events) = <<"hyper", k>>
        /\ trace.hread = factor[k + 1]
        /\ trace.hdrawn = <<var_mu_hyper, var_Lambda_hyper>>

\* Right after factor m was resampled: it was given the pair drawn for it,
\* it read the modes before m as they are now (resampled in this sweep) and
\* the modes after m as they were when the sweep began.
C1_Sequential ==
    trace.fread # <<>> =>
        LET m == Last(trace.events)[2]
        IN  /\ Last(trace.events)[1] = "factor"
            /\ trace.hused = trace.hdrawn
            /\ trace.start[m + 1] = <<>>
            /\ \A j \in 0..2 :
                 /\ j < m => /\ trace.fread[j + 1] = factor[j + 1]
                             /\ trace.start[j + 1] = <<>>
                 /\ j > m => /\ trace.fread[j + 1] = trace.start[j + 1]
                             /\ factor[j + 1] = trace.start[j + 1]

\* A factor matrix changes only in the resampling step of its own mode.
C1_OwnStep ==
    \A j \in 0..2 :
        (pc # "init" /\ factor'[j + 1] # factor[j + 1]) => (pc = "factor" /\ k = j)

\* C1: in every sweep the modes are processed in the order 0, 1, 2; the
\* hyperparameter pair of mode k is drawn from factor k's current value
\* immediately before factor k is resampled with that pair; the draw of mode
\* k reads the other two matrices as they are at that moment, so mode 1 sees
\* mode 0 of this sweep and mode 2 of the previous sweep, and mode 2 sees
\* modes 0 and 1 of this sweep.
C1_SequentialSweep ==
    /\ [](C1_Order /\ C1_HyperFresh /\ C1_Sequential)
    /\ [][C1_OwnStep]_vars

\* Mode 2 was just resampled in the second sweep of a run, after modes 0 and
\* 1 were given new values in that sweep.
C1_Witness ==
    /\ it = 1
    /\ pc = "combine"
    /\ trace.fread # <<>>
    /\ Last(trace.events) = <<"factor", 2>>
    /\ trace.fread[1] # StartMatrix(2, Cols(factor[1]))
    /\ trace.fread[1] = factor[1]

----------------------------------------------------------------------------
(* Properties of the accumulators and of the returned means.               *)

RECURSIVE SumSamplesF(_, _, _, _)
\* Sum over the logged samples of entry (i, s) of factor matrix x.
SumSamplesF(log, x, i, s) ==
    IF log = <<>> THEN 0
    ELSE Head(log).f[x][i][s] + SumSamplesF(Tail(log), x, i, s)

RECURSIVE SumSamplesT(_, _, _, _)
\* Sum over the logged samples of entry (i, j, t) of the reconstruction.
SumSamplesT(log, i, j, t) ==
    IF log = <<>> THEN 0
    ELSE Head(log).t[i][j][t] + SumSamplesT(Tail(log), i, j, t)

\* The sweeps completed so far that belong to the collection phase.
CollectedSoFar == IF it > burn_iter THEN it - burn_iter ELSE 0

\* The log holds the samples of sweeps burn_iter + 1, burn_iter + 2, ... in
\* order, each the factor matrices and their reconstruction.
C2_Log ==
    /\ Len(trace.samples) = CollectedSoFar
    /\ \A x \in 1..Len(trace.samples) :
         /\ trace.samples[x].sweep = burn_iter + x
         /\ trace.samples[x].t = cp_combine(trace.samples[x].f)

\* The accumulators are the entry-wise sums of the logged samples: zero
\* until the first collection sweep ends, each sample added once.
C2_Accumulators ==
    pc \notin {"init", "error"} =>
        /\ \A x \in 1..3 : \A i \in 1..EngineDims[x] :
             \A s \in 1..Cols(factor[x]) :
             factor_plus[x][i][s] = SumSamplesF(trace.samples, x, i, s)
        /\ \A i \in 1..EngineDims[1] : \A j \in 1..EngineDims[2] :
             \A t \in 1..EngineDims[3] :
                tensor_hat_plus[i][j][t] = SumSamplesT(trace.samples, i, j, t)

\* The returned arrays are the sums of exactly gibbs_iter samples, divided
\* by gibbs_iter.
C2_Mean ==
    (pc = "done" /\ gibbs_iter >= 1) =>
        /\ Len(trace.samples) = gibbs_iter
        /\ \A x \in 1..3 : \A i \in 1..EngineDims[x] :
             \A s \in 1..Cols(factor[x]) :
             /\ out_factor[x][i][s].kind = "num"
             /\ out_factor[x][i][s].n * gibbs_iter
                  = out_factor[x][i][s].d * SumSamplesF(trace.samples, x, i, s)
        /\ \A i \in 1..EngineDims[1] : \A j \in 1..EngineDims[2] :
             \A t \in 1..EngineDims[3] :
                /\ out_tensor[i][j][t].kind = "num"
                /\ out_tensor[i][j][t].n * gibbs_iter
                     = out_tensor[i][j][t].d * SumSamplesT(trace.samples, i, j, t)

\* C2: for burn_iter >= 0 and gibbs_iter >= 1 the returned tensor and factor
\* matrices are the arithmetic mean of exactly the gibbs_iter samples of
\* sweeps burn_iter + 1 .. burn_iter + gibbs_iter; the accumulators start at
\* zero, no burn-in sweep changes them, and each collection sweep is added
\* exactly once.
C2_PosteriorMean == C2_Log /\ C2_Accumulators /\ C2_Mean

\* A run with one burn-in sweep and two collection sweeps has returned, and
\* its two samples differ.
C2_Witness ==
    /\ pc = "done"
    /\ burn_iter = 1
    /\ gibbs_iter = 2
    /\ Len(trace.samples) = 2
    /\ trace.samples[1].f # trace.samples[2].f
    /\ out_factor[1][1][1].d = 2

----------------------------------------------------------------------------
(* Properties of the global precision.                                     *)

\* Gamma draws so far: one per completed sweep, and the one of the current
\* sweep once its tau step has run.
C3_Once == trace.tau_draws = it + (IF pc = "end" THEN 1 ELSE 0)

\* The tau step comes last in a sweep, after the three factor draws and the
\* reconstruction, and its parameters come from that reconstruction.
C3_AfterFactors ==
    pc = "end" =>
        /\ trace.events = Canonical(it)
        /\ \A j \in 1..3 : trace.start[j] = <<>>
        /\ tensor_hat = cp_combine(factor)
        /\ trace.tau_params = TauParams(sparse_tensor, cp_combine(factor), pos_train)

\* Every factor draw of the sweep was given the value tau had when the sweep
\* began; in the first sweep that is 1.
C3_SameValue ==
    /\ \A x \in 1..Len(trace.tread) : trace.tread[x] = trace.tau_start
    /\ (pc # "init" /\ it = 0) => trace.tau_start = 1
    /\ pc \in {"hyper", "factor", "combine", "tau"} => tau = trace.tau_start
    /\ pc \in {"combine", "tau", "end"} => Len(trace.tread) = 3

\* tau changes only in the tau step (and when it is initialised).
C3_OnlyTauStep == tau' # tau => pc \in {"tau", "init"}

\* C3: tau is redrawn exactly once per sweep, after all three factor
\* matrices of the sweep have been updated and the tensor reconstructed from
\* them; it does not change between the three factor draws, which all use
\* the value drawn at the end of the previous sweep (1 in the first sweep).
C3_TauOncePerSweep ==
    /\ [](C3_Once /\ C3_AfterFactors /\ C3_SameValue)
    /\ [][C3_OnlyTauStep]_vars

\* The second sweep's three factor draws have used a tau other than the
\* initial one, and the sweep's own tau draw has given a different value.
C3_Witness ==
    /\ pc = "end"
    /\ it = 1
    /\ trace.tread = <<2, 2, 2>>
    /\ tau = 1
    /\ trace.tau_draws = 2

----------------------------------------------------------------------------
(* Properties of the phases.                                               *)

\* 0 Initializing, 1 BurnIn, 2 Collecting, 3 Finalized.
PhaseNo ==
    IF pc = "init" THEN 0
    ELSE IF InSweep THEN (IF it < burn_iter THEN 1 ELSE 2)
    ELSE 3

Positive == burn_iter > 0 /\ gibbs_iter > 0

\* The phase never goes back, and with positive counts none is skipped;
\* a step that raises leaves the phases.
C4_PhaseStep ==
    pc' # "error" =>
        /\ PhaseNo' >= PhaseNo
        /\ Positive => PhaseNo' \in {PhaseNo, PhaseNo + 1}

\* The sweep counter counts completed sweeps one by one.
C4_CountStep == it' # it => (pc = "end" /\ it' = it + 1)

\* Within the loop fewer than burn_iter + gibbs_iter sweeps are complete;
\* after it exactly burn_iter + gibbs_iter are, whatever was sampled.
C4_Counts ==
    /\ InSweep => it < burn_iter + gibbs_iter
    /\ pc \in {"final", "done"} => it = burn_iter + gibbs_iter
    /\ pc \in {"final", "done"} => Len(trace.samples) = gibbs_iter

\* C4: for positive burn_iter and gibbs_iter the run moves through
\* Initializing, BurnIn, Collecting, Finalized in that order and never back,
\* runs exactly burn_iter burn-in sweeps and then exactly gibbs_iter
\* collection sweeps, whatever is sampled, and always reaches Finalized.
C4_PhasesAndTermination ==
    /\ [][C4_PhaseStep /\ C4_CountStep]_vars
    /\ []C4_Counts
    /\ (pc = "init" /\ Positive) ~> (pc = "done")

----------------------------------------------------------------------------
(* Properties of the index sets and of the metrics.                        *)

Coords == CoordsOf(Shape3(sparse_tensor))

AsSet(pos) == {pos[x] : x \in 1..Len(pos)}

NoRepeat(pos) == \A x, y \in 1..Len(pos) : pos[x] = pos[y] => x = y

C10_Sets ==
    pc \notin {"init", "error"} =>
        /\ AsSet(pos_train) = {c \in Coords : At(sparse_tensor, c) # 0}
        /\ AsSet(pos_test) = {c \in Coords : At(dense_tensor, c) # 0
                                              /\ At(sparse_tensor, c) = 0}
        /\ NoRepeat(pos_train)
        /\ NoRepeat(pos_test)
        /\ AsSet(pos_train) \cap AsSet(pos_test) = {}
        /\ \A c \in Coords :
             At(binary_tensor, c) = (IF c \in AsSet(pos_train) THEN 1 ELSE 0)

C10_Fixed ==
    pc # "init" =>
        UNCHANGED <<pos_train, pos_test, binary_tensor, dense_tensor, sparse_tensor>>

\* C10: the train set is exactly the coordinates where the sparse array is
\* nonzero, the test set exactly those where the reference is nonzero and
\* the sparse array zero; they are disjoint, the mask is 1 exactly on the
\* train set, and all three are computed once before the first sweep and
\* stay the same in every later state.
C10_IndexSets == []C10_Sets /\ [][C10_Fixed]_vars

\* A run with a train entry and a test entry has completed.
C10_Witness ==
    /\ pc = "done"
    /\ it >= 2
    /\ pos_train # <<>>
    /\ pos_test # <<>>

\* C9: when a held-out ground-truth value is exactly zero, the entry stays
\* in the evaluation set and the final MAPE is an undefined-metric
\* condition, not a number.
C9_ZeroSurfaced ==
    \A c \in Coords :
        (pc = "done" /\ gibbs_iter >= 1
                      /\ At(dense_tensor, c) = 0 /\ At(sparse_tensor, c) = 0) =>
            /\ c \in AsSet(pos_test)
            /\ mape.kind # "num"

----------------------------------------------------------------------------
(* Properties of sample_factor.                                            *)

\* The coordinates of row i (1-based) of mode kk, as a sequence.
RowCoords(kk, i) ==
    LET d == Shape3(sparse_tensor)
    IN  Where3([x \in 1..d[1] |-> [y \in 1..d[2] |-> [z \in 1..d[3] |->
                  <<x, y, z>>[kk + 1] = i]]])

\* c of a coordinate: the element-wise product of the rows that the other
\* two modes' factor matrices have at that coordinate.
Cofactor(kk, c) ==
    IF kk = 0 THEN VecMul(factor[2][c[2]], factor[3][c[3]])
    ELSE IF kk = 1 THEN VecMul(factor[1][c[1]], factor[3][c[3]])
    ELSE VecMul(factor[1][c[1]], factor[2][c[2]])

RECURSIVE SumOuter(_, _)
\* Sum of c c^T over the observed coordinates of cs.
SumOuter(kk, cs) ==
    IF cs = <<>> THEN ZeroMat(Len(var_mu_hyper), Len(var_mu_hyper))
    ELSE LET c == Cofactor(kk, Head(cs))
         IN  MatAdd(MatScale(At(binary_tensor, Head(cs)), Outer(c, c)),
                    SumOuter(kk, Tail(cs)))

RECURSIVE SumYC(_, _)
\* Sum of y c over the observed coordinates of cs.
SumYC(kk, cs) ==
    IF cs = <<>> THEN ZeroVec(Len(var_mu_hyper))
    ELSE VecAdd(VecScale(At(binary_tensor, Head(cs)) * At(sparse_tensor, Head(cs)),
                         Cofactor(kk, Head(cs))),
                SumYC(kk, Tail(cs)))

\* tau * sum of c c^T + Lambda_hyper, for row i of mode kk.
RowPrecision(kk, i) ==
    MatAdd(MatScale(tau, SumOuter(kk, RowCoords(kk, i))), var_Lambda_hyper)

\* tau * sum of y c + Lambda_hyper mu_hyper, for row i of mode kk.
RowRhs(kk, i) ==
    VecAdd(VecScale(tau, SumYC(kk, RowCoords(kk, i))),
           MatVec(var_Lambda_hyper, var_mu_hyper))

Called == pc \in {"sf_done", "error"}

\* C6: in the dense strategy, for every mode k and row i, the precision
\* matrix built from kr_prod and ten2mat is tau times the sum of c c^T over
\* exactly the observed coordinates of row i, plus Lambda_hyper, and the
\* right-hand side is tau times the sum of y c over the same coordinates,
\* plus Lambda_hyper mu_hyper; the rows of the Khatri-Rao cofactor matrix
\* are ordered as the columns of the mode-k unfolding, for all three modes.
C6_DenseStatistics ==
    (Called /\ vargin = 0) =>
        /\ Len(row_Lambda) = Len(row_rhs)
        /\ err = "" => Len(row_Lambda) = FactorDims[k + 1]
        /\ \A i \in 1..Len(row_Lambda) :
             /\ row_Lambda[i] = RowPrecision(k, i)
             /\ row_rhs[i] = RowRhs(k, i)

\* The dense strategy has run for mode 1 on a tensor whose row 1 has two
\* observed entries, in different columns of the unfolding.
C6_Witness ==
    /\ pc = "sf_done"
    /\ vargin = 0
    /\ k = 1
    /\ Len(row_Lambda) = 2
    /\ At(binary_tensor, <<1, 1, 3>>) = 1
    /\ At(binary_tensor, <<2, 1, 1>>) = 1
    /\ tau = 2

\* C5: for every mode, row and input the sparse strategy computes the same
\* per-row precision matrix and right-hand side as the dense strategy: the
\* statistics of row i over exactly the observed pairs of row i.
C5_SameStatistics ==
    (Called /\ vargin = 1) =>
        \A i \in 1..Len(row_Lambda) :
            /\ row_Lambda[i] = DenseLambda(binary_tensor, tau, factor,
                                            var_Lambda_hyper, k, i)
            /\ row_rhs[i] = DenseRhs(sparse_tensor, tau, factor, var_mu_hyper,
                                      var_Lambda_hyper, k, i)
            /\ row_Lambda[i] = RowPrecision(k, i)
            /\ row_rhs[i] = RowRhs(k, i)

\* C8: when the precision matrix of a row is not positive definite after
\* symmetrization, the call ends with an error, and neither that row nor a
\* later one is drawn.
C8_FailFast ==
    Called =>
        \A i \in 1..Len(row_Lambda) :
            ~IsPD(Sym2(row_Lambda[i])) => (err # "" /\ n_drawn < i)

----------------------------------------------------------------------------
(* Properties of the configuration.                                        *)

\* The factor list does not fit the observation array: not three matrices,
\* a row count that is not the array's dimension, or differing ranks.
BadConfig ==
    \/ Len(factor) # 3
    \/ \E x \in 1..3 : Rows(factor[x]) # Shape3(sparse_tensor)[x]
    \/ \E x, y \in 1..3 : Cols(factor[x]) # Cols(factor[y])

\* C7: with factor matrices that disagree in rank, number or row count with
\* the observation array, the run ends in a configuration error before any
\* sweep: no hyperparameter, factor or precision draw has happened, and no
\* factor matrix has changed.
C7_EagerValidation ==
    BadConfig =>
        /\ pc \in {"init", "error"}
        /\ trace.events = <<>>
        /\ trace.tau_draws = 0
        /\ \A x \in 1..Len(factor) : \A i \in 1..Rows(factor[x]) :
             \A c \in 1..Cols(factor[x]) : factor[x][i][c] = 3

----------------------------------------------------------------------------
(* Properties of the kernels.                                              *)

\* The kernel fn has returned.
KernelDone(fn) == pc = "k_done" /\ arg.fn = fn

\* C14: for a with m rows, b with n rows and the same column count r,
\* kr_prod(a, b) has m * n rows and r columns, and its entry at row
\* i * n + j, column s is a[i, s] * b[j, s]; for the notebook's A and B it
\* is [[5,12],[7,16],[9,20],[15,24],[21,32],[27,40]].
C14_KhatriRao ==
    KernelDone("kr_prod") =>
        LET m == Rows(arg.a)
            n == Rows(arg.b)
            r == Cols(arg.a)
        IN  /\ Cols(arg.b) = r
            /\ Rows(ret) = m * n
            /\ \A x \in 1..(m * n) : Len(ret[x]) = r
            /\ \A i \in 0..(m - 1) : \A j \in 0..(n - 1) : \A c \in 0..(r - 1) :
                  ret[i * n + j + 1][c + 1] = arg.a[i + 1][c + 1] * arg.b[j + 1][c + 1]
            /\ (arg.a = ExampleA /\ arg.b = ExampleB) =>
                  ret = <<<<5, 12>>, <<7, 16>>, <<9, 20>>,
                          <<15, 24>>, <<21, 32>>, <<27, 40>>>>

\* kr_prod has returned for the notebook's A (2 x 2) and B (3 x 2).
C14_Witness ==
    /\ KernelDone("kr_prod")
    /\ arg.a = ExampleA
    /\ arg.b = ExampleB
    /\ Rows(ret) = 6
    /\ ret[4] = <<15, 24>>

\* The tensor the notebook prints for cp_combine of its example matrices.
ExampleCombined ==
    << <<<<31, 38, 45, 52>>, <<42, 52, 62, 72>>, <<65, 82, 99, 116>>>>,
       <<<<63, 78, 93, 108>>, <<86, 108, 130, 152>>, <<135, 174, 213, 252>>>> >>

\* Frontal slice t of a tensor: T[:, :, t].
Frontal(T, t) == [i \in 1..Len(T) |-> [j \in 1..Len(T[i]) |-> T[i][j][t]]]

\* C15: for U (m x r), V (n x r), X (f x r), cp_combine returns an
\* m x n x f tensor whose entry (i, j, t) is the sum over s of
\* U[i, s] * V[j, s] * X[t, s]; for the notebook's matrices its four frontal
\* slices are [[31,42,65],[63,86,135]], [[38,52,82],[78,108,174]],
\* [[45,62,99],[93,130,213]], [[52,72,116],[108,152,252]].
C15_Combine ==
    KernelDone("cp_combine") =>
        LET U == arg.var[1]
            V == arg.var[2]
            X == arg.var[3]
        IN  /\ Len(ret) = Rows(U)
            /\ \A i \in 1..Rows(U) :
                  /\ Len(ret[i]) = Rows(V)
                  /\ \A j \in 1..Rows(V) :
                        /\ Len(ret[i][j]) = Rows(X)
                        /\ \A t \in 1..Rows(X) :
                              ret[i][j][t] =
                                  SumSeq([c \in 1..Cols(U) |->
                                            U[i][c] * V[j][c] * X[t][c]])
            /\ arg.var = ExampleFactor =>
                  /\ ret = ExampleCombined
                  /\ Frontal(ret, 1) = <<<<31, 42, 65>>, <<63, 86, 135>>>>
                  /\ Frontal(ret, 2) = <<<<38, 52, 82>>, <<78, 108, 174>>>>
                  /\ Frontal(ret, 3) = <<<<45, 62, 99>>, <<93, 130, 213>>>>
                  /\ Frontal(ret, 4) = <<<<52, 72, 116>>, <<108, 152, 252>>>>

\* cp_combine has returned for the notebook's three matrices.
C15_Witness ==
    /\ KernelDone("cp_combine")
    /\ arg.var = ExampleFactor
    /\ Shape3(ret) = <<2, 3, 4>>
    /\ ret[2][3][4] = 252

\* The two modes other than kk, in ascending order (0-based).
OtherModes(kk) ==
    IF kk = 0 THEN <<1, 2>> ELSE IF kk = 1 THEN <<0, 2>> ELSE <<0, 1>>

\* Row and column (1-based) of coordinate c in the mode-kk unfolding of a
\* tensor of shape d: row = index along kk, column = a + d_a * b.
Position(d, kk, c) ==
    LET o == OtherModes(kk)
    IN  <<c[kk + 1], (c[o[1] + 1] - 1) + d[o[1] + 1] * (c[o[2] + 1] - 1) + 1>>

\* The tensor of shape d re-folded from a mode-kk unfolding.
Fold(mat, d, kk) ==
    [i \in 1..d[1] |-> [j \in 1..d[2] |-> [t \in 1..d[3] |->
        mat[Position(d, kk, <<i, j, t>>)[1]][Position(d, kk, <<i, j, t>>)[2]]]]]

\* C16: for every mode k and 3-D tensor, ten2mat(tensor, k) has dim_k rows
\* and (product of the other two dims) columns, and holds the entry of
\* coordinate c at row = index along k, column = a + d_a * b with a, b the
\* indices along the two other modes in ascending order; the map from
\* coordinates to positions is a bijection, and re-folding gives the tensor
\* back.
C16_Unfold ==
    KernelDone("ten2mat") =>
        LET d == Shape3(arg.tensor)
            kk == arg.mode
            o == OtherModes(kk)
            cols == d[o[1] + 1] * d[o[2] + 1]
        IN  /\ Rows(ret) = d[kk + 1]
            /\ \A x \in 1..Rows(ret) : Len(ret[x]) = cols
            /\ \A c \in CoordsOf(d) :
                  ret[Position(d, kk, c)[1]][Position(d, kk, c)[2]] = At(arg.tensor, c)
            /\ {Position(d, kk, c) : c \in CoordsOf(d)} = (1..d[kk + 1]) \X (1..cols)
            /\ \A c1, c2 \in CoordsOf(d) :
                  Position(d, kk, c1) = Position(d, kk, c2) => c1 = c2
            /\ Fold(ret, d, kk) = arg.tensor

\* ten2mat has returned the mode-1 unfolding of the notebook's tensor X
\* (3 x 2 x 4), whose first row the notebook prints.
C16_Witness ==
    /\ KernelDone("ten2mat")
    /\ arg.tensor = ExampleX
    /\ arg.mode = 1
    /\ ret[1] = <<1, 5, 9, 2, 6, 10, 3, 7, 11, 4, 8, 12>>

\* dim * rank^2 > 1e8 and (total / dim) * rank^2 > 1e8, for
\* total = dim * rest + extra with extra / dim * rank^2 < 1.
ExceedsDim == arg.dim * arg.rank * arg.rank > Threshold

ExceedsRest ==
    \/ arg.rest * arg.rank * arg.rank > Threshold
    \/ arg.rest * arg.rank * arg.rank = Threshold /\ arg.extra > 0

\* C17: the strategy is a function of (dim, rank, total, vargin) only: the
\* dense strategy runs if and only if vargin is 0 and both dim * rank^2 and
\* (total / dim) * rank^2 are at most 1e8; if either exceeds 1e8 the sparse
\* strategy runs; a vargin of 1 is never turned back to dense.
C17_StrategyChoice ==
    KernelDone("strategy") =>
        /\ ret = 0 <=> (arg.vargin = 0 /\ ~ExceedsDim /\ ~ExceedsRest)
        /\ (ExceedsDim \/ ExceedsRest) => ret = 1
        /\ arg.vargin = 1 => ret = 1
        /\ ret \in {0, 1, arg.vargin}

\* The dense strategy was chosen with dim * rank^2 exactly at the threshold.
C17_Witness ==
    /\ KernelDone("strategy")
    /\ arg.vargin = 0
    /\ arg.dim * arg.rank * arg.rank = Threshold
    /\ ret = 0

----------------------------------------------------------------------------
(* Properties of the caller's arrays.                                      *)

\* The sweeps whose three factor updates are complete.
SweepsSampled == IF pc \in {"combine", "tau", "end"} THEN it + 1 ELSE it

\* Every matrix of the caller's list holds the rows mvnrnd returned last for
\* its mode, or is untouched while its mode was never sampled; once a sweep
\* has sampled all three modes, the whole list is the most recent sample,
\* and it is the sample that was accumulated last.
C18_Latest ==
    pc \notin {"init", "error"} =>
        /\ \A x \in 1..3 :
              IF trace.latest[x] = <<>>
              THEN factor[x] = StartMatrix(EngineDims[x], Cols(factor[x]))
              ELSE factor[x] = trace.latest[x]
        /\ SweepsSampled >= 1 => factor = trace.latest
        /\ (pc \in {"final", "done"} /\ gibbs_iter >= 1) =>
              Last(trace.samples).f = factor

\* Computing and returning the means leaves the caller's list as it is, and
\* no step writes to the observation array or to the reference array.
C18_Frame ==
    /\ pc = "final" => factor' = factor
    /\ dense_tensor' = dense_tensor
    /\ sparse_tensor' = sparse_tensor

\* C18: BGCP overwrites the caller's factor matrices in place: after every
\* sweep and after BGCP returns, the caller's list holds the most recent
\* Gibbs sample, while the returned posterior means are separate from it;
\* the observation and reference arrays are never modified.
C18_InPlace == []C18_Latest /\ [][C18_Frame]_vars

\* BGCP has returned after two collection sweeps: the caller's list holds the
\* last sample, which is neither the initial matrices nor the returned mean.
C18_Witness ==
    /\ pc = "done"
    /\ gibbs_iter = 2
    /\ factor = trace.latest
    /\ factor[1] # StartMatrix(EngineDims[1], Cols(factor[1]))
    /\ out_factor[1][1][1] # QInt(factor[1][1][1])

----------------------------------------------------------------------------
(* Properties of seeded runs and of the monitoring.                        *)

\* C11: two calls of BGCP with the same seed, the same arrays, the same
\* initial factor matrices and the same burn_iter and gibbs_iter return the
\* same tensor and the same factor matrices.
C11_SameOutputs ==
    (pc = "done" /\ caller.calls = 2) =>
        /\ out_tensor = caller.returned[1]
        /\ out_factor = caller.returned[2]

\* The second call has returned what the first returned, after one burn-in
\* sweep and two collection sweeps whose samples differ.
C11_Witness ==
    /\ pc = "done"
    /\ caller.calls = 2
    /\ burn_iter = 1
    /\ gibbs_iter = 2
    /\ out_factor = caller.returned[2]
    /\ trace.samples[1].f # trace.samples[2].f

\* The sweeps that have printed metrics are exactly the completed sweeps s
\* with s <= burn_iter and s divisible by 5, each once; none of them is a
\* collection sweep.
C12_When ==
    /\ AsSet(trace.monitored) =
           {x \in 1..it : x % MonitorEvery = 0 /\ x <= burn_iter}
    /\ NoRepeat(trace.monitored)
    /\ \A x \in 1..Len(trace.monitored) : ~InCollection(trace.monitored[x])

\* A step that prints metrics leaves the factor matrices, tau, the
\* accumulators and the generator as they are, and goes on to the next
\* sweep as a step without monitoring does.
C12_Frame ==
    Len(trace.monitored') > Len(trace.monitored) =>
        /\ UNCHANGED <<factor, tau, factor_plus, tensor_hat_plus, rng>>
        /\ UNCHANGED <<dense_tensor, sparse_tensor, pos_train, pos_test,
                       binary_tensor, burn_iter, gibbs_iter>>
        /\ it' = it + 1
        /\ pc' = (IF it + 1 < burn_iter + gibbs_iter THEN "hyper" ELSE "final")
        /\ trace'.samples = trace.samples

\* C12: held-out RMSE/MAPE monitoring happens only in sweeps s <= burn_iter,
\* at every s divisible by 5, never in a collection sweep, and a monitoring
\* step leaves the factor matrices, tau, the accumulators and the sequence
\* of random draws unchanged.
C12_MonitoringOnly == []C12_When /\ [][C12_Frame]_vars

\* A run with ten burn-in sweeps has returned, having printed metrics in
\* sweeps 5 and 10.
C12_Witness ==
    /\ pc = "done"
    /\ burn_iter = 10
    /\ trace.monitored = <<5, 10>>
    /\ Len(trace.samples) = gibbs_iter

----------------------------------------------------------------------------
(* Properties of the row loop of sample_factor.                            *)

\* The factor list the call was entered with, the matrix of mode kk blanked:
\* what is left of it are the other two modes' matrices and the shape.
Without(fac, kk) == [fac EXCEPT ![kk + 1] = ZeroMat(Rows(@), Cols(@))]

\* The parameters of row i computed from the tensor, the mask, tau, the
\* hyperparameter pair and the other two modes' matrices alone.
EntryLambda(i) ==
    IF vargin = 0
    THEN DenseLambda(binary_tensor, tau, Without(trace.fread, k),
                     var_Lambda_hyper, k, i)
    ELSE SparseLambda(binary_tensor, tau, Without(trace.fread, k),
                      var_Lambda_hyper, k, i)

EntryRhs(i) ==
    IF vargin = 0
    THEN DenseRhs(sparse_tensor, tau, Without(trace.fread, k), var_mu_hyper,
                  var_Lambda_hyper, k, i)
    ELSE SparseRhs(sparse_tensor, binary_tensor, tau, Without(trace.fread, k),
                   var_mu_hyper, var_Lambda_hyper, k, i)

\* The parameters every row was given, whatever rows were written before
\* it, are those computed without the matrix of mode k.
C13_Independent ==
    pc \in {"row", "sf_done", "error"} =>
        \A i \in 1..Len(row_Lambda) :
            row_Lambda[i] # <<>> =>
                /\ row_Lambda[i] = EntryLambda(i)
                /\ row_rhs[i] = EntryRhs(i)

\* When the call returns, row i holds the draw made with its own variate
\* from those parameters, in whatever order the rows were processed; the
\* other two matrices are as they were.
C13_AnyOrder ==
    pc = "sf_done" =>
        /\ \A i \in 1..Rows(factor[k + 1]) :
              factor[k + 1][i] = mvnrnd(EntryLambda(i), EntryRhs(i), arg.u[i])
        /\ \A x \in 1..3 : x # k + 1 => factor[x] = trace.fread[x]
        /\ n_drawn = Rows(factor[k + 1])

\* C13: within one call of sample_factor for mode k, the posterior
\* parameters of row i depend only on the tensor, the mask, tau, the
\* hyperparameter pair and the other two modes' factor matrices, never on a
\* row of mode k written earlier in the call; with each row given its own
\* draw, the resulting matrix is the same for every order of the rows.
C13_RowsIndependent == C13_Independent /\ C13_AnyOrder

\* The sparse strategy has returned for mode 2 after processing the rows in
\* the order 3, 1, 2, on a tensor with two observed entries.
C13_Witness ==
    /\ pc = "sf_done"
    /\ arg.order = <<3, 1, 2>>
    /\ k = 2
    /\ vargin = 1
    /\ Len(pos_train) = 2
    /\ factor[3] # trace.fread[3]

====
